---- MODULE Spec2Model ----
(***************************************************************************)
(* A model of the company-information pipeline of ArkAIScrape:             *)
(*   src/ai_server.py  CompanyCrawler (process_company and its steps),     *)
(*                     process_csv, /process-single/                       *)
(*   src/webapp.py     WebCrawler.process_companies_with_updates           *)
(*   src/run.py        process_companies_realtime                          *)
(*                                                                         *)
(* Coroutines of one application share one asyncio event loop: code        *)
(* between two suspension points runs without interleaving.  `running`     *)
(* names, per application, the coroutine that holds the loop; a step that  *)
(* ends in a real suspension (session.get, response.text, asyncio.sleep,   *)
(* websocket.send_text) releases it.                                       *)
(*                                                                         *)
(* The rows of an input are drawn when the loop reads them; `rows` keeps   *)
(* the company cells read so far.  A result list keeps, of each record,    *)
(* the company name and the status.  The clock of a runner counts from the *)
(* start of its call of process_company, and advances while the call waits *)
(* for a response.  What the network, the browser and the parsers return   *)
(* is chosen by the environment.                                           *)
(***************************************************************************)
EXTENDS Integers, Sequences, FiniteSets, TLC

(* ------------------------------ bounds -------------------------------- *)

\* rows of one uploaded CSV
MaxRows == 2
\* wall-clock ticks (one tick = 0.01 s, the resolution of round(., 2))
MaxClock == 1
\* websocket clients connected to the web application at one time
MaxWs == 1

(* ----------------------------- universe ------------------------------- *)

Runners == {1, 2}
Apps == {"api", "web"}
Kinds == {"csv", "web", "client"}

\* CompanyData, ai_server.py:35-52
StrFields ==
  {"company_name", "website", "phone_number", "street_address", "city",
   "state", "zip_code", "facebook_page", "facebook_page_name",
   "facebook_likes", "facebook_about", "linkedin_page", "public_email",
   "contact_person", "status", "last_updated"}
Fields == StrFields \cup {"processing_time"}

\* the fields an extraction result may carry
InfoKeys ==
  {"phone_number", "street_address", "city", "state", "zip_code",
   "facebook_page", "linkedin_page", "public_email", "contact_person"}
FbKeys == {"facebook_page_name", "facebook_likes", "facebook_about"}

EmptyMap == [k \in {} |-> ""]
Put(m, k, v) == [x \in (DOMAIN m) \cup {k} |-> IF x = k THEN v ELSE m[x]]
Has(m, k) == k \in DOMAIN m

\* company names of the input rows (str(row[col]).strip())
Names == {"Medcare", "AB", "nan"}
\* a guess that tries plain http first
ProtocolsHttpFirst == <<"http://", "https://">>
Protocols == <<"https://", "http://">>
GivenWebsiteCells == {"", "acme.com"}

\* the pages the network may serve (html_content), by id; "" is no content
Pages == {"page_full", "page_plain", "page_broken"}

(* ------------------------------ state --------------------------------- *)

VARIABLES
  now,        \* per runner: time.time(), in ticks since its call of process_company began
  driver,     \* per application: CompanyCrawler.driver
  session,    \* per application: CompanyCrawler.session
  running,    \* per application: the coroutine holding the event loop, or 0
  up,         \* per application: the server is serving (FALSE after its shutdown)
  ws,         \* webapp.websocket_connections (number of entries)
  kind,       \* per runner: which batch loop it executes, or "off"
  nrows,      \* per runner: len(df), the number of input rows
  rows,       \* per runner: the company cells of the rows the loop has read
  idx,        \* per runner: position of the for loop over the rows
  results,    \* per runner: the result list
  job,        \* per runner: active_jobs[job_id] (web jobs)
  bc,         \* per runner: the broadcast_update iteration in progress
  pc,         \* per runner: control position
  cname,      \* per runner: company_name of the row being processed
  website,    \* per runner: local `website`
  rec,        \* per runner: company_data
  start,      \* per runner: start_time
  html,       \* per runner: html_content
  probe,      \* per runner: position in the candidate / protocol loops
  exc,        \* per runner: message of the exception being propagated, or "none"
  steps,      \* per runner: the steps process_company has run (history)
  bench       \* the last application of a pure function: arguments and result

envVars == <<now, ws>>
crawlerVars == <<driver, session>>
\* what no step of a job changes
inputVars == <<kind, nrows, bench, up>>
loopVars == <<rows, idx, results, job, bc, cname>>
vars == <<now, driver, session, running, ws, kind, nrows, rows, idx, results, job, bc,
          pc, cname, website, rec, start, html, probe, exc, steps, bench, up>>

NoDriver == [open |-> FALSE, page_load_timeout |-> 0]
\* the loop variables of the candidate / protocol loops, outside the loops
NoProbe == [c |-> 0, p |-> 0]
appOf(r) == IF kind[r] = "web" THEN "web" ELSE "api"

\* the coroutine of runner r may run: the loop is free or r holds it
CanRun(r) == running[appOf(r)] \in {0, r}
Hold(r) == running' = [running EXCEPT ![appOf(r)] = r]
Yield(r) == running' = [running EXCEPT ![appOf(r)] = 0]

Log(r, s) == steps' = [steps EXCEPT ![r] = Append(@, s)]

(* ------------------------- CompanyData, merge ------------------------- *)

\* CompanyData(company_name=..., website=..., last_updated=...)
NewRecord(name, site, stamp, st) ==
  [f \in Fields |->
     CASE f = "company_name" -> name
       [] f = "website" -> site
       [] f = "last_updated" -> stamp
       [] f = "status" -> st
       [] f = "processing_time" -> 0
       [] OTHER -> ""]

\* the value of `company_data` outside a call of process_company
NoRecord == NewRecord("", "", "", "")
\* a record of a result list, by the fields the batch loops and their callers
\* read back
ResultRow(record) == [company_name |-> record["company_name"], status |-> record["status"]]

\* datetime.now().isoformat(): the tick as a string
Stamp(t) == "t" \o ToString(t)

\* for key, value in info.items():
\*     if hasattr(company_data, key) and value: setattr(company_data, key, str(value))
MergeOverwriteAll(r0, info) ==
  [f \in Fields |-> IF f \in DOMAIN info THEN info[f] ELSE r0[f]]
MergeAccumulate(r0, info) ==
  [f \in Fields |-> IF f \in DOMAIN info /\ info[f] # "" THEN r0[f] \o info[f] ELSE r0[f]]
Merge(r0, info) ==
  [f \in Fields |-> IF f \in DOMAIN info /\ info[f] # "" THEN info[f] ELSE r0[f]]

(* ------------------ base extraction (TextHeuristics) ------------------ *)

\* What the parsing primitives (BeautifulSoup, re.findall, re.search) return on
\* a page.  phone_matches: per phone pattern, the findall tuples; emails: the
\* findall result with the outcome of the two substring filters; anchors:
\* soup.find_all('a', href=True) with href.lower() split at the first '?'/'#'
\* and the outcome of the substring tests; address_matches: per address
\* pattern, the findall tuples; address_sections: per (indicator, section), the
\* three re.search results ("" when None); contact_finds: per (indicator,
\* section, pattern), the findall names with the false-positive test;
\* city_state_matches: per pattern, the findall pairs.  raises: the place
\* where an exception is thrown, or "none".
NoPage ==
  [raises |-> "none", phone_matches |-> <<<<>>, <<>>, <<>>>>, emails |-> <<>>,
   anchors |-> <<>>, address_matches |-> <<<<>>, <<>>>>, address_sections |-> <<>>,
   contact_finds |-> <<>>, city_state_matches |-> <<<<>>, <<>>, <<>>>>]

PageOf(h) ==
  CASE h = "page_full" ->
         [NoPage EXCEPT
            !.phone_matches = << <<<<"646", "208", "0199">>>>, <<>>, <<<<"646", "208", "0199">>>> >>,
            !.emails = << [addr |-> "sales@acme.com", noise |-> FALSE, priority |-> FALSE],
                          [addr |-> "info@acme.com", noise |-> FALSE, priority |-> TRUE] >>,
            !.anchors = << [base |-> "https://facebook.com/acme", tail |-> "?ref=1",
                            facebook |-> TRUE, fb_skip |-> FALSE, linkedin |-> FALSE, slashes |-> 3] >>,
            !.address_matches = << << <<"12 Oak St", "Springfield", "IL", "62701">> >>, <<>> >>,
            !.contact_finds = << << [name |-> "Home Care", noise |-> TRUE],
                                    [name |-> "Jane Roe", noise |-> FALSE] >> >>]
    [] h = "page_plain" ->
         [NoPage EXCEPT
            !.phone_matches = << <<<<"555", "123", "4567">>>>, <<<<"555", "123", "4567">>>>,
                                 <<<<"555", "123", "4567">>>> >>,
            !.emails = << [addr |-> "noreply@acme.com", noise |-> TRUE, priority |-> FALSE] >>,
            !.anchors = << [base |-> "", tail |-> "?u=linkedin.com/company/acme",
                            facebook |-> FALSE, fb_skip |-> FALSE, linkedin |-> TRUE, slashes |-> 0] >>,
            !.address_sections = << [zip |-> "62701", state |-> "", street |-> ""] >>,
            !.city_state_matches = << << <<"Springfield", "IL">> >>, <<>>, <<>> >>]
    [] h = "page_broken" -> [NoPage EXCEPT !.raises = "parse"]
    \* text "1234567890 or 212-736-5000": the second pattern asks for separators
    [] h = "page_phone_mixed" ->
         [NoPage EXCEPT
            !.phone_matches = << <<<<"123", "456", "7890">>, <<"212", "736", "5000">>>>,
                                 <<<<"212", "736", "5000">>>>,
                                 <<<<"123", "456", "7890">>, <<"212", "736", "5000">>>> >>]
    [] h = "page_phone_fake" ->
         [NoPage EXCEPT
            !.phone_matches = << <<<<"000", "000", "0000">>>>, <<<<"111", "111", "1111">>>>,
                                 <<<<"000", "000", "0000">>>> >>]
    \* two Facebook links and two LinkedIn links, in document order
    [] h = "page_two_links" ->
         [NoPage EXCEPT
            !.anchors = << [base |-> "https://facebook.com/acme", tail |-> "",
                            facebook |-> TRUE, fb_skip |-> FALSE, linkedin |-> FALSE, slashes |-> 3],
                           [base |-> "https://linkedin.com/company/acme", tail |-> "?trk=1",
                            facebook |-> FALSE, fb_skip |-> FALSE, linkedin |-> TRUE, slashes |-> 4],
                           [base |-> "https://facebook.com/sharer.php", tail |-> "?u=acme.com",
                            facebook |-> TRUE, fb_skip |-> TRUE, linkedin |-> FALSE, slashes |-> 3],
                           [base |-> "https://facebook.com/webdesigner", tail |-> "",
                            facebook |-> TRUE, fb_skip |-> FALSE, linkedin |-> FALSE, slashes |-> 3],
                           [base |-> "https://linkedin.com/in/jane-roe", tail |-> "",
                            facebook |-> FALSE, fb_skip |-> FALSE, linkedin |-> TRUE, slashes |-> 4] >>]
    \* no structured address; two blocks near address words and a "City, ST"
    \* elsewhere in the text
    [] h = "page_address_mixed" ->
         [NoPage EXCEPT
            !.address_sections = << [zip |-> "62701", state |-> "IL", street |-> ""],
                                    [zip |-> "10001", state |-> "NY", street |-> "5 Elm St"] >>,
            !.city_state_matches = << <<>>, << <<"Albany", "NY">> >>, <<>> >>]
    \* a structured address found by the second pattern, and the same blocks
    [] h = "page_address_both" ->
         [NoPage EXCEPT
            !.address_matches = << <<>>, << <<"12 Oak St", "Springfield", " IL", "62701">>,
                                            <<"9 Pine Rd", "Troy", "NY", "12180">> >> >>,
            !.address_sections = << [zip |-> "10001", state |-> "NY", street |-> "5 Elm St"] >>,
            !.city_state_matches = << << <<"Albany", "NY">> >>, <<>>, <<>> >>]
    [] OTHER -> NoPage

\* str.strip() on the strings of the pages
Strip(s) == CASE s = " " -> "" [] s = " IL" -> "IL" [] OTHER -> s

\* phone = f"({match[0]}) {match[1]}-{match[2]}"
FormatPhone(m) == "(" \o m[1] \o ") " \o m[2] \o "-" \o m[3]
\* a validation that lets every number pass
IsPlaceholderNever(m) == FALSE
\* phone.startswith(('(000)', '(111)', '(123)', '(555)')): the first five characters
IsPlaceholder(m) == ("(" \o m[1] \o ")") \in {"(000)", "(111)", "(123)", "(555)"}

RECURSIVE PhoneFrom(_, _, _)
PhoneFrom(page, info, i) ==
  IF i > Len(page.phone_matches) THEN info
  ELSE LET ms == page.phone_matches[i] IN
       IF ms # <<>> /\ ~IsPlaceholder(ms[1])
         THEN Put(info, "phone_number", FormatPhone(ms[1]))
         ELSE PhoneFrom(page, info, i + 1)
ExtractPhone(page, info) == PhoneFrom(page, info, 1)

ExtractEmail(page, info) ==
  LET filtered == SelectSeq(page.emails, LAMBDA e : ~e.noise)
      priority == SelectSeq(filtered, LAMBDA e : e.priority)
  IN IF filtered = <<>> THEN info
     ELSE Put(info, "public_email",
              IF priority # <<>> THEN priority[1].addr ELSE filtered[1].addr)

RECURSIVE SocialFrom(_, _, _)
SocialFrom(page, info, i) ==
  IF i > Len(page.anchors) THEN info
  ELSE LET a == page.anchors[i]
           next == IF a.facebook /\ ~a.fb_skip
                     THEN (IF a.slashes >= 3 THEN Put(info, "facebook_page", a.base) ELSE info)
                   ELSE IF a.linkedin THEN Put(info, "linkedin_page", a.base)
                   ELSE info
       IN SocialFrom(page, next, i + 1)
ExtractSocial(page, info) == SocialFrom(page, info, 1)

\* a fallback that stores what every block gives
RECURSIVE AddressSectionsOverwrite(_, _, _)
AddressSectionsOverwrite(page, info, i) ==
  IF i > Len(page.address_sections) THEN info
  ELSE LET sec == page.address_sections[i]
           i1 == IF sec.zip # "" THEN Put(info, "zip_code", sec.zip) ELSE info
           i2 == IF sec.state # "" THEN Put(i1, "state", sec.state) ELSE i1
           i3 == IF sec.street # "" THEN Put(i2, "street_address", Strip(sec.street)) ELSE i2
       IN AddressSectionsOverwrite(page, i3, i + 1)

RECURSIVE AddressSections(_, _, _)
AddressSections(page, info, i) ==
  IF i > Len(page.address_sections) THEN info
  ELSE LET s == page.address_sections[i]
           i1 == IF s.zip # "" /\ ~Has(info, "zip_code") THEN Put(info, "zip_code", s.zip) ELSE info
           i2 == IF s.state # "" /\ ~Has(i1, "state") THEN Put(i1, "state", s.state) ELSE i1
           i3 == IF s.street # "" /\ ~Has(i2, "street_address")
                   THEN Put(i2, "street_address", Strip(s.street)) ELSE i2
       IN AddressSections(page, i3, i + 1)

ExtractAddressInfo(page, info) ==
  IF page.raises = "address" THEN info
  ELSE LET hit == SelectSeq(page.address_matches, LAMBDA ms : ms # <<>>) IN
       IF hit # <<>>
         THEN LET m == hit[1][1] IN
              Put(Put(Put(Put(info, "street_address", Strip(m[1])), "city", Strip(m[2])),
                      "state", Strip(m[3])), "zip_code", Strip(m[4]))
         ELSE AddressSections(page, info, 1)

RECURSIVE ContactFrom(_, _, _)
ContactFrom(page, info, i) ==
  IF i > Len(page.contact_finds) THEN info
  ELSE LET valid == SelectSeq(page.contact_finds[i], LAMBDA n : ~n.noise) IN
       IF valid # <<>> THEN Put(info, "contact_person", valid[1].name)
       ELSE ContactFrom(page, info, i + 1)
ExtractContactPerson(page, info) ==
  IF page.raises = "contact" THEN info ELSE ContactFrom(page, info, 1)

ExtractLocationInfo(page, info) ==
  IF page.raises = "location" THEN info
  ELSE IF Has(info, "city") /\ Has(info, "state") THEN info
  ELSE LET hit == SelectSeq(page.city_state_matches, LAMBDA ms : ms # <<>>) IN
       IF hit = <<>> THEN info
       ELSE LET m == hit[1][1]
                i1 == IF ~Has(info, "city") /\ Len(m[1]) > 2
                        THEN Put(info, "city", Strip(m[1])) ELSE info
            IN IF ~Has(i1, "state") THEN Put(i1, "state", Strip(m[2])) ELSE i1

\* extract_company_info_with_ai: an exception before the three helper calls
\* (which swallow their own) is caught at the function boundary: return {}
ThrowsInside(page) == page.raises \in {"parse", "phone", "email", "social"}
extract_company_info_with_ai(page) ==
  IF ThrowsInside(page) THEN EmptyMap
  ELSE ExtractLocationInfo(page,
         ExtractContactPerson(page,
           ExtractAddressInfo(page,
             ExtractSocial(page, ExtractEmail(page, ExtractPhone(page, EmptyMap))))))

(* --------------- social-profile extraction (Facebook) ----------------- *)

\* What the browser shows for a profile URL.  load: whether driver.get and the
\* wait for <body> succeed; title: driver.title; body_wall: the body text holds
\* "You must log in" or "See more of"; og_title / og_description: content of
\* the first meta tag ("" when absent); h1: the heading texts; likes_match: the
\* first number the like patterns find ("" when none); abouts: the texts of the
\* about selectors' elements.
FbPages ==
  { [load |-> "ok", title |-> "Log into Facebook", body_wall |-> FALSE, og_title |-> "",
     og_description |-> "", h1 |-> <<>>, likes_match |-> "", abouts |-> <<>>, raises |-> "none"],
    [load |-> "ok", title |-> "Acme | Facebook", body_wall |-> TRUE, og_title |-> "Acme",
     og_description |-> "See more of Acme on Facebook", h1 |-> <<"Acme">>, likes_match |-> "3K",
     abouts |-> <<>>, raises |-> "none"],
    [load |-> "ok", title |-> "Acme | Facebook", body_wall |-> FALSE, og_title |-> "Acme Inc",
     og_description |-> "We care for people", h1 |-> <<"Acme">>, likes_match |-> "1.2K",
     abouts |-> <<>>, raises |-> "none"],
    [load |-> "ok", title |-> "Acme | Facebook", body_wall |-> FALSE, og_title |-> "",
     og_description |-> "short", h1 |-> <<"Acme Page">>, likes_match |-> "",
     abouts |-> <<"Home care for the whole family">>, raises |-> "none"],
    [load |-> "ok", title |-> "Facebook", body_wall |-> FALSE, og_title |-> "",
     og_description |-> "", h1 |-> <<>>, likes_match |-> "", abouts |-> <<>>, raises |-> "none"],
    [load |-> "raise", title |-> "", body_wall |-> FALSE, og_title |-> "",
     og_description |-> "", h1 |-> <<>>, likes_match |-> "", abouts |-> <<>>, raises |-> "none"] }

\* where a strategy of extract_facebook_info may raise: reading og:title,
\* reading og:description, looking up the h1 elements, in the likes
\* strategy, in the about strategy
RaisePoints == {"meta_title", "meta_description", "heading", "likes", "about"}
\* the pages, and the public ones with an exception in one of the strategies
FbObs ==
  FbPages \cup { [o EXCEPT !.raises = x] :
                   o \in {p \in FbPages : p.load = "ok" /\ ~p.body_wall /\ p.og_description # ""},
                   x \in RaisePoints }

\* any(x in page_title for x in ["Log into Facebook", "Facebook - log in", ...])
IsLoginTitle(t) == t \in {"Log into Facebook", "Facebook - log in"}
\* page_title.replace(" | Facebook", "").replace(" - Facebook", "").strip()
CleanTitle(t) == CASE t = "Acme | Facebook" -> "Acme" [] t = "Acme - Facebook" -> "Acme" [] OTHER -> t
\* s[:300]: the strings of the model are shorter
Truncate300(s) == CASE Len(s) <= 300 -> s

\* url minus scheme, "www." and "facebook.com/", up to the first '/' and '?'
SlugOf(url) ==
  CASE url = "https://facebook.com/acme" -> "acme"
    [] url = "https://www.facebook.com/AcmeHealth?ref=123" -> "AcmeHealth"
    [] url = "https://facebook.com/profile.php?id=1" -> "profile.php"
    [] url = "https://facebook.com/a_b" -> "a_b"
    [] OTHER -> ""
\* slug.replace('-', ' ').replace('.', ' ').title()
TitleCase(slug) ==
  CASE slug = "acme" -> "Acme" [] slug = "AcmeHealth" -> "Acmehealth"
    [] slug = "a_b" -> "A_B" [] OTHER -> slug
\* page_name.replace(' ', '').isalnum()
IsAlnum(page_name) == page_name \in {"Acme", "Acmehealth"}

extract_facebook_from_url(url) ==
  LET slug == SlugOf(url) IN
  IF slug # "" /\ slug \notin {"profile.php", "pages", "people"}
       /\ Len(TitleCase(slug)) > 2 /\ IsAlnum(TitleCase(slug))
    THEN Put(EmptyMap, "facebook_page_name", TitleCase(slug))
    ELSE EmptyMap

\* result = {'facebook_page_name': '', 'facebook_likes': '', 'facebook_about': ''}
FbResultInit == [k \in FbKeys |-> ""]

\* Strategy 1: meta tags
FbMetaTags(obs, res) ==
  IF obs.raises = "meta_title" THEN res
  ELSE LET r1 == IF obs.og_title # "" THEN [res EXCEPT !["facebook_page_name"] = obs.og_title]
                 ELSE res
       IN IF obs.raises = "meta_description" THEN r1
          ELSE IF obs.og_description # "" /\ Len(obs.og_description) > 10
            THEN [r1 EXCEPT !["facebook_about"] = Truncate300(obs.og_description)] ELSE r1

\* Strategy 2: cleaned title, then the first h1 of 1..99 characters
FbTitleAndHeading(obs, res) ==
  IF res["facebook_page_name"] # "" THEN res
  ELSE LET ct == CleanTitle(obs.title)
           r1 == IF ct # "" /\ ct # "Facebook" THEN [res EXCEPT !["facebook_page_name"] = ct] ELSE res
           hs == SelectSeq(obs.h1, LAMBDA h : h # "" /\ Len(h) < 100)
       IN IF obs.raises = "heading" THEN r1
          ELSE IF hs # <<>> THEN [r1 EXCEPT !["facebook_page_name"] = hs[1]] ELSE r1

\* Strategy 3: likes / followers
FbLikes(obs, res) ==
  IF obs.raises = "likes" THEN res
  ELSE IF obs.likes_match # "" THEN [res EXCEPT !["facebook_likes"] = obs.likes_match \o " likes"] ELSE res

\* Strategy 4: about regions
FbAbout(obs, res) ==
  IF res["facebook_about"] # "" \/ obs.raises = "about" THEN res
  ELSE LET as == SelectSeq(obs.abouts, LAMBDA a : a # "" /\ Len(a) > 20) IN
       IF as # <<>> THEN [res EXCEPT !["facebook_about"] = Truncate300(as[1])] ELSE res

\* result.update(url_result)
Update(res, m) == [k \in (DOMAIN res) \cup (DOMAIN m) |-> IF k \in DOMAIN m THEN m[k] ELSE res[k]]

\* an extract_facebook_info that runs its strategies on a login wall too
extract_facebook_info_through_wall(url, have_driver, obs) ==
  IF url = "" THEN FbResultInit
  ELSE IF ~have_driver THEN extract_facebook_from_url(url)
  ELSE IF obs.load # "ok" THEN extract_facebook_from_url(url)
  ELSE LET res == FbAbout(obs, FbLikes(obs, FbTitleAndHeading(obs, FbMetaTags(obs, FbResultInit))))
       IN IF res["facebook_page_name"] = "" THEN Update(res, extract_facebook_from_url(url)) ELSE res

\* an extract_facebook_info whose strategies share the outer handler: an
\* exception in any of them gives the URL fallback alone
extract_facebook_info_one_handler(url, have_driver, obs) ==
  IF url = "" THEN FbResultInit
  ELSE IF ~have_driver THEN extract_facebook_from_url(url)
  ELSE IF obs.load # "ok" THEN extract_facebook_from_url(url)
  ELSE IF IsLoginTitle(obs.title) \/ obs.body_wall THEN extract_facebook_from_url(url)
  ELSE IF obs.raises # "none" THEN extract_facebook_from_url(url)
  ELSE LET res == FbAbout(obs, FbLikes(obs, FbTitleAndHeading(obs, FbMetaTags(obs, FbResultInit))))
       IN IF res["facebook_page_name"] = "" THEN Update(res, extract_facebook_from_url(url)) ELSE res

\* extract_facebook_info, given whether a browser is available
extract_facebook_info(url, have_driver, obs) ==
  IF url = "" THEN FbResultInit
  ELSE IF ~have_driver THEN extract_facebook_from_url(url)
  ELSE IF obs.load # "ok" THEN extract_facebook_from_url(url)
  ELSE IF IsLoginTitle(obs.title) \/ obs.body_wall THEN extract_facebook_from_url(url)
  ELSE LET res == FbAbout(obs, FbLikes(obs, FbTitleAndHeading(obs, FbMetaTags(obs, FbResultInit))))
       IN IF res["facebook_page_name"] = "" THEN Update(res, extract_facebook_from_url(url)) ELSE res

(* ----------------------- website resolution --------------------------- *)

\* re.sub(r'[^a-zA-Z0-9\s]', '', name.lower()).split(), words longer than 2
CleanWords(name) ==
  CASE name = "Acme" -> <<"acme">>
    [] name = "Medcare" -> <<"medcare">>
    [] name = "AB" -> <<>>
    [] name = "nan" -> <<"nan">>
    [] name = "Acme Health" -> <<"acme", "health">>
    [] name = "Ghost Corp" -> <<"ghost", "corp">>
    [] name = "A1 Care" -> <<"care">>
    [] name = "Ace Home Care" -> <<"ace", "home", "care">>
    [] OTHER -> <<>>
\* any(w in name.lower() for w in ['health', 'care', 'medical', 'hospice'])
HasHealthWord(name) == name \in {"Acme Health", "A1 Care", "Medcare", "Ace Home Care"}

PotentialDomains(name) ==
  LET w == CleanWords(name) IN
  IF Len(w) = 0 THEN <<>>
  ELSE (IF Len(w) >= 2
          THEN << w[1] \o w[2] \o ".com", w[1] \o w[2] \o ".com",
                  w[1] \o "-" \o w[2] \o ".com", w[1] \o "-" \o w[2] \o ".com" >>
          ELSE <<>>)
       \o << w[1] \o ".com", w[1] \o "inc.com", w[1] \o "llc.com" >>
       \o (IF HasHealthWord(name) /\ Len(w) >= 2
             THEN << w[1] \o "health.com", w[1] \o "care.com", w[1] \o "medical.com" >>
             ELSE <<>>)

RECURSIVE Dedup(_, _, _)
\* seen = set(); keep a domain not seen before and longer than 6
Dedup(ds, i, acc) ==
  IF i > Len(ds) THEN acc
  ELSE Dedup(ds, i + 1,
             IF (\A j \in 1..Len(acc) : acc[j] # ds[i]) /\ Len(ds[i]) > 6
               THEN Append(acc, ds[i]) ELSE acc)
UniqueDomains(name) == Dedup(PotentialDomains(name), 1, <<>>)
\* a cut of the list to its first four entries
CandidatesFirstFour(name) ==
  LET u == UniqueDomains(name) IN IF Len(u) <= 4 THEN u ELSE SubSeq(u, 1, 4)
\* unique_domains[:8]
Candidates(name) ==
  LET u == UniqueDomains(name) IN IF Len(u) <= 8 THEN u ELSE SubSeq(u, 1, 8)

\* the company names of the model: those of the batch inputs and three more
\* for the resolution of a single company
ResolveNames == {"Acme Health", "A1 Care", "Ghost Corp"}
AllNames == Names \cup ResolveNames \cup {"Acme"}
DomainsOf(name) == {Candidates(name)[j] : j \in 1..Len(Candidates(name))}

\* [word.lower() for word in re.findall(r'\b\w+\b', company_name) if len(word) > 3]
SignificantWords(name) ==
  CASE name = "Acme" -> <<"acme">>
    [] name = "Medcare" -> <<"medcare">>
    [] name = "Acme Health" -> <<"acme", "health">>
    [] name = "Ghost Corp" -> <<"ghost", "corp">>
    [] name = "A1 Care" -> <<"care">>
    [] OTHER -> <<>>
GenericDomains == {"angel.com", "angels.com", "anchor.com", "care.com", "health.com"}
\* the hosts of the URLs of the model
Hosts == UNION {DomainsOf(n) : n \in AllNames} \cup {"acme.com", "www.care.com", "health.com"}
\* urlparse(url).netloc.lower()
NetlocOf(url) ==
  IF \E i \in 1..Len(Protocols), h \in Hosts : url = Protocols[i] \o h
    THEN CHOOSE h \in Hosts : \E i \in 1..Len(Protocols) : url = Protocols[i] \o h
    ELSE ""

\* the threshold of a validator that asks two matches of every company
ThresholdAlwaysTwo(name) == 2
\* threshold = 1 if any(hw in company_name.lower() for hw in [...]) else 2
Threshold(name) == IF HasHealthWord(name) THEN 1 ELSE 2

\* the generic domains of a validator without a blocklist
BlockedNever(url) == FALSE
\* domain in generic_domains
Blocked(url) == NetlocOf(url) \in GenericDomains

\* validate_website_relevance.  content: the set of lower-case words that
\* occur in the page ('word in content_lower'); a word that occurs twice in
\* company_words is counted twice.  The arguments are strings in every call,
\* so nothing in the body raises and the 'return True' of the handler is
\* not reached.
validate_website_relevance(name, content, url) ==
  IF Blocked(url) THEN FALSE
  ELSE LET company_words == SignificantWords(name)
           matches == Cardinality({i \in 1..Len(company_words) : company_words[i] \in content})
       IN matches >= Threshold(name)

\* the first search result, as find_website_browser sees it
SearchOutcomes == {"found", "rejected", "timeout", "error"}
SearchUrl == "https://www.acme.com/"

\* the href of the link of a search result, as find_website_browser reads it:
\* url.startswith("http"), url.startswith("https://www.google") and
\* urlparse(url).netloc.lower().replace('www.', ''), over the URLs of the model
SearchHrefs ==
  {"", SearchUrl, "https://en.wikipedia.org/wiki/Acme", "https://www.facebook.com/acme",
   "https://www.google.com/maps/place/Acme", "mailto:info@acme.com"}
StartsWithHttp(url) == url \notin {"", "mailto:info@acme.com"}
StartsWithGoogle(url) == url = "https://www.google.com/maps/place/Acme"
SearchDomain(url) ==
  CASE url = SearchUrl -> "acme.com"
    [] url = "https://en.wikipedia.org/wiki/Acme" -> "en.wikipedia.org"
    [] url = "https://www.facebook.com/acme" -> "facebook.com"
    [] url = "https://www.google.com/maps/place/Acme" -> "google.com"
    [] OTHER -> ""
\* any(skip in domain for skip in skip_domains), over the domains above
SkipDomains == <<"wikipedia", "linkedin", "facebook", "twitter", "yelp", "yellowpages">>
SkipIn(skip, domain) ==
  \/ skip = "wikipedia" /\ domain = "en.wikipedia.org"
  \/ skip = "facebook" /\ domain = "facebook.com"
Skipped(domain) == \E i \in 1..Len(SkipDomains) : SkipIn(SkipDomains[i], domain)

\* a result element: link is FALSE when it has no a[href] (find_element raises
\* NoSuchElementException)
SearchResults ==
  [link : {TRUE}, href : SearchHrefs] \cup {[link |-> FALSE, href |-> ""]}
\* a search that inspects every result until one passes
first_passing_result(found) ==
  LET ok == SelectSeq(found, LAMBDA e : /\ e.link /\ e.href # "" /\ StartsWithHttp(e.href)
                                          /\ ~StartsWithGoogle(e.href)
                                          /\ ~Skipped(SearchDomain(e.href)))
  IN IF ok = <<>> THEN "" ELSE ok[1].href
\* for result in search_results[:1]: the URL the loop returns, '' when it ends
first_result(found) ==
  LET e == found[1] IN
  IF ~e.link THEN ""
  ELSE IF e.href # "" /\ StartsWithHttp(e.href) /\ ~StartsWithGoogle(e.href)
          /\ ~Skipped(SearchDomain(e.href))
    THEN e.href
  ELSE ""
\* what the load of the search page and the wait for "div.g" give: the
\* elements found (at least one), a TimeoutException or another exception
SearchPages ==
  {[wait |-> "ok", results |-> <<e>>] : e \in SearchResults}
    \cup {[wait |-> "ok", results |-> <<e, [link |-> TRUE, href |-> SearchUrl]>>] : e \in SearchResults}
    \cup {[wait |-> w, results |-> <<>>] : w \in {"timeout", "error"}}
\* the outcome of the search on a page, as one of SearchOutcomes
SearchOutcomeOf(page) ==
  IF page.wait # "ok" THEN page.wait
  ELSE IF first_result(page.results) # "" THEN "found" ELSE "rejected"

\* url.startswith(('http://', 'https://')), over the URLs of the model
SchemeUrls ==
  { Protocols[i] \o h : i \in 1..Len(Protocols),
      h \in {"acme.com", "www.acme.com/"}
            \cup UNION { DomainsOf(n) : n \in AllNames } }
HasScheme(url) == url \in SchemeUrls

(* ------------------ CompanyCrawler.process_company -------------------- *)

Set(v, r, x) == [v EXCEPT ![r] = x]
Goto(r, p) == pc' = [pc EXCEPT ![r] = p]
SetStatus(r, st) == rec' = [rec EXCEPT ![r]["status"] = st]

\* a start that resolves the website whether or not one was given
PCStartAlwaysResolve(r) ==
  /\ pc[r] = "call" /\ CanRun(r) /\ Hold(r)
  /\ start' = Set(start, r, now[r])
  /\ rec' = Set(rec, r, NewRecord(cname[r], website[r], Stamp(now[r]), ""))
  /\ steps' = Set(steps, r, <<>>)
  /\ html' = Set(html, r, "")
  /\ Goto(r, "browser")
  /\ UNCHANGED <<envVars, crawlerVars, inputVars, loopVars, website, probe, exc>>

\* start_time = time.time(); company_data = CompanyData(...)
PCStart(r) ==
  /\ pc[r] = "call" /\ CanRun(r) /\ Hold(r)
  /\ start' = Set(start, r, now[r])
  /\ rec' = Set(rec, r, NewRecord(cname[r], website[r], Stamp(now[r]), ""))
  /\ steps' = Set(steps, r, <<>>)
  /\ html' = Set(html, r, "")
  /\ Goto(r, IF website[r] = "" THEN "browser" ELSE "fetch")
  /\ UNCHANGED <<envVars, crawlerVars, inputVars, loopVars, website, probe, exc>>

\* str(e) of the exception driver.quit() raises in close_browser
QuitError == "quit failed"

\* a find_company_website that runs the domain guess whatever the search gave
FindWebsiteBrowserThenGuess(r) ==
  /\ pc[r] = "browser" /\ CanRun(r) /\ Hold(r)
  /\ \E setup_ok \in BOOLEAN, out \in SearchOutcomes, quit1 \in BOOLEAN, quit2 \in BOOLEAN :
       LET a == appOf(r)
           d1 == IF driver[a].open THEN driver[a]
                 ELSE IF setup_ok THEN [open |-> TRUE, page_load_timeout |-> 5]
                 ELSE NoDriver
           raised == d1.open /\ out = "error" /\ ~quit1 /\ ~quit2
           d2 == IF d1.open /\ out = "error" /\ (quit1 \/ quit2) THEN NoDriver ELSE d1
           url == IF d1.open /\ out = "found" THEN SearchUrl ELSE ""
       IN /\ driver' = [driver EXCEPT ![a] = d2]
          /\ IF raised
               THEN /\ exc' = Set(exc, r, QuitError)
                    /\ Goto(r, "handler")
                    /\ steps' = Set(steps, r, steps[r] \o <<"search", "raise">>)
                    /\ UNCHANGED website
               ELSE /\ website' = Set(website, r, url)
                    /\ Goto(r, "fallback")
                    /\ Log(r, "search")
                    /\ UNCHANGED exc
  /\ UNCHANGED <<envVars, session, inputVars, loopVars, rec, start, html, probe>>

\* find_website_browser: no suspension point inside.  setup_ok: whether
\* webdriver.Chrome() starts; out: what the search gives; quit1/quit2: whether
\* driver.quit() succeeds in the inner and in the outer handler's close_browser
\* find_website_browser on a crawler whose driver is d0: the driver after the
\* call, the URL it returns and whether an exception leaves it. found is the
\* URL its loop over the results returns when the search gave results.
find_website_browser(d0, setup_ok, out, found, quit1, quit2) ==
  LET d1 == IF d0.open THEN d0
            ELSE IF setup_ok THEN [open |-> TRUE, page_load_timeout |-> 5]
            ELSE NoDriver
  IN [loaded_under |-> d1.page_load_timeout,
      raised |-> d1.open /\ out = "error" /\ ~quit1 /\ ~quit2,
      driver |-> IF d1.open /\ out = "error" /\ (quit1 \/ quit2) THEN NoDriver ELSE d1,
      url |-> IF d1.open /\ out = "found" THEN found ELSE ""]

FindWebsiteBrowser(r) ==
  /\ pc[r] = "browser" /\ CanRun(r) /\ Hold(r)
  /\ \E setup_ok \in BOOLEAN, out \in SearchOutcomes, quit1 \in BOOLEAN, quit2 \in BOOLEAN :
       LET a == appOf(r)
           res == find_website_browser(driver[a], setup_ok, out, SearchUrl, quit1, quit2)
       IN /\ driver' = [driver EXCEPT ![a] = res.driver]
          /\ IF res.raised
               THEN /\ exc' = Set(exc, r, QuitError)
                    /\ Goto(r, "handler")
                    /\ steps' = Set(steps, r, steps[r] \o <<"search", "raise">>)
                    /\ UNCHANGED website
               ELSE /\ website' = Set(website, r, res.url)
                    /\ Goto(r, IF res.url = "" THEN "fallback" ELSE "resolved")
                    /\ Log(r, "search")
                    /\ UNCHANGED exc
  /\ UNCHANGED <<envVars, session, inputVars, loopVars, rec, start, html, probe>>

\* find_website_fallback up to the first request: the candidate list
FallbackBegin(r) ==
  /\ pc[r] = "fallback" /\ CanRun(r) /\ Hold(r)
  /\ Log(r, "guess")
  /\ IF Candidates(cname[r]) = <<>>
       THEN /\ website' = Set(website, r, "")
            /\ Goto(r, "resolved")
            /\ UNCHANGED probe
       ELSE /\ probe' = Set(probe, r, [c |-> 1, p |-> 1])
            /\ Goto(r, "probe_send")
            /\ UNCHANGED website
  /\ UNCHANGED <<envVars, crawlerVars, inputVars, loopVars, rec, start, html, exc>>

\* if not self.session: await self.initialize_session()
EnsureSession(r) ==
  session' = [session EXCEPT ![appOf(r)] = IF @ = "none" THEN "open" ELSE @]

\* async with self.session.get(test_url, ...): the coroutine is suspended
ProbeSend(r) ==
  /\ pc[r] = "probe_send" /\ CanRun(r) /\ Yield(r)
  /\ EnsureSession(r)
  /\ Goto(r, "probe_recv")
  /\ UNCHANGED <<envVars, driver, inputVars, loopVars, website, rec, start, html, probe, exc, steps>>

ProbeUrl(r) == Protocols[probe[r].p] \o Candidates(cname[r])[probe[r].c]

\* what one probe may give: an exception of the request, or a status and a
\* page, of which the model keeps the significant words of the name it contains
ProbeResponses(name) ==
  { [raises |-> TRUE, status |-> 0, content |-> {}],
    [raises |-> FALSE, status |-> 404, content |-> {}] }
  \cup { [raises |-> FALSE, status |-> 200, content |-> S] :
           S \in SUBSET {SignificantWords(name)[i] : i \in 1..Len(SignificantWords(name))} }

\* the response: test_url is returned when the status is 200 and
\* validate_website_relevance is true; anything else, an exception of the
\* request included, goes on to the next protocol or candidate
ProbeRecv(r) ==
  /\ pc[r] = "probe_recv" /\ CanRun(r) /\ Hold(r)
  /\ \E resp \in ProbeResponses(cname[r]) :
       IF ~resp.raises /\ resp.status = 200
            /\ validate_website_relevance(cname[r], resp.content, ProbeUrl(r))
         THEN /\ website' = Set(website, r, ProbeUrl(r))
              /\ Goto(r, "resolved")
              /\ probe' = Set(probe, r, NoProbe)
         ELSE IF probe[r].p < Len(Protocols)
           THEN /\ probe' = Set(probe, r, [probe[r] EXCEPT !.p = @ + 1])
                /\ Goto(r, "probe_send")
                /\ UNCHANGED website
         ELSE IF probe[r].c < Len(Candidates(cname[r]))
           THEN /\ probe' = Set(probe, r, [c |-> probe[r].c + 1, p |-> 1])
                /\ Goto(r, "probe_send")
                /\ UNCHANGED website
         ELSE /\ website' = Set(website, r, "")
              /\ Goto(r, "resolved")
              /\ probe' = Set(probe, r, NoProbe)
  /\ UNCHANGED <<envVars, crawlerVars, inputVars, loopVars, rec, start, html, exc, steps>>

\* a resolution that goes on to the fetch whatever it found
ResolvedKeepGoing(r) ==
  /\ pc[r] = "resolved" /\ CanRun(r) /\ Hold(r)
  /\ IF website[r] # ""
       THEN /\ rec' = [rec EXCEPT ![r]["website"] = website[r]]
            /\ UNCHANGED steps
       ELSE /\ rec' = [rec EXCEPT ![r]["website"] = website[r], ![r]["status"] = "Website not found"]
            /\ Log(r, "status")
  /\ Goto(r, "fetch")
  /\ UNCHANGED <<envVars, crawlerVars, inputVars, loopVars, website, start, html, probe, exc>>

\* company_data.website = website; if website: ... else: status = "Website not found"
Resolved(r) ==
  /\ pc[r] = "resolved" /\ CanRun(r) /\ Hold(r)
  /\ IF website[r] # ""
       THEN /\ rec' = [rec EXCEPT ![r]["website"] = website[r]]
            /\ Goto(r, "fetch")
            /\ UNCHANGED steps
       ELSE /\ rec' = [rec EXCEPT ![r]["website"] = website[r], ![r]["status"] = "Website not found"]
            /\ Goto(r, "finish")
            /\ Log(r, "status")
  /\ UNCHANGED <<envVars, crawlerVars, inputVars, loopVars, website, start, html, probe, exc>>

\* what one GET may give: an exception, or a status and a body
FetchResponses ==
  { [raises |-> TRUE, status |-> 0, long |-> FALSE, html_tag |-> FALSE, body |-> ""],
    [raises |-> FALSE, status |-> 404, long |-> TRUE, html_tag |-> TRUE, body |-> "page_plain"],
    [raises |-> FALSE, status |-> 200, long |-> FALSE, html_tag |-> TRUE, body |-> "page_plain"],
    [raises |-> FALSE, status |-> 200, long |-> TRUE, html_tag |-> FALSE, body |-> "page_plain"] }
  \cup { [raises |-> FALSE, status |-> 200, long |-> TRUE, html_tag |-> TRUE, body |-> b] : b \in Pages }

\* an acceptance test that does not look at the status
AcceptedAnyStatus(resp) == ~resp.raises /\ resp.long /\ resp.html_tag
\* response.status == 200 and len(content) > 500 and '<html' in content.lower()
Accepted(resp) == ~resp.raises /\ resp.status = 200 /\ resp.long /\ resp.html_tag

\* a fetch that tries both protocols whatever the URL
FetchUrlsBothAlways(url) == << "https://" \o url, "http://" \o url >>
\* the URLs fetch_website_content requests, in order
FetchUrls(url) ==
  IF HasScheme(url) THEN <<url>>
  ELSE << Protocols[1] \o url, Protocols[2] \o url >>

\* fetch_website_content as a whole, on the responses its attempts receive:
\* the URLs it requested, in order, and the content it returns
RECURSIVE FetchFrom(_, _, _, _)
FetchFrom(urls, resps, i, requested) ==
  IF i > Len(urls) THEN [requested |-> requested, content |-> ""]
  ELSE IF Accepted(resps[i])
    THEN [requested |-> Append(requested, urls[i]), content |-> resps[i].body]
  ELSE FetchFrom(urls, resps, i + 1, Append(requested, urls[i]))
fetch_website_content(url, resps) == FetchFrom(FetchUrls(url), resps, 1, <<>>)

\* fetch_website_content up to the first request
FetchBegin(r) ==
  /\ pc[r] = "fetch" /\ CanRun(r) /\ Yield(r)
  /\ EnsureSession(r)
  /\ probe' = Set(probe, r, [c |-> 0, p |-> 1])
  /\ Log(r, "fetch")
  /\ Goto(r, "fetch_recv")
  /\ UNCHANGED <<envVars, driver, inputVars, loopVars, website, rec, start, html, exc>>

\* one response: the content if accepted, else the next protocol, else "".
\* On return the model keeps the attempt and its response (the locals
\* protocol and response of the call) until process_company has tested the
\* content.
FetchRecv(r) ==
  /\ pc[r] = "fetch_recv" /\ CanRun(r)
  /\ \E resp \in FetchResponses :
       IF Accepted(resp)
         THEN /\ html' = Set(html, r, resp.body)
              /\ Goto(r, "fetched") /\ Hold(r)
              /\ probe' = Set(probe, r, [c |-> 0, p |-> probe[r].p, resp |-> resp])
         ELSE IF probe[r].p < Len(FetchUrls(website[r]))
           THEN /\ probe' = Set(probe, r, [probe[r] EXCEPT !.p = @ + 1])
                /\ Goto(r, "fetch_recv") /\ Yield(r)
                /\ UNCHANGED html
         ELSE /\ html' = Set(html, r, "")
              /\ Goto(r, "fetched") /\ Hold(r)
              /\ probe' = Set(probe, r, [c |-> 0, p |-> probe[r].p, resp |-> resp])
  /\ UNCHANGED <<envVars, crawlerVars, inputVars, loopVars, website, rec, start, exc, steps>>

\* Fetched without the test of html_content
FetchedAlwaysExtract(r) ==
  /\ pc[r] = "fetched" /\ CanRun(r) /\ Hold(r)
  /\ Goto(r, "extract")
  /\ probe' = Set(probe, r, NoProbe)
  /\ UNCHANGED <<envVars, crawlerVars, inputVars, loopVars, website, rec, start, html, exc, steps>>

\* Fetched that marks the record 'Success' as soon as there is content
FetchedStatusEarly(r) ==
  /\ pc[r] = "fetched" /\ CanRun(r) /\ Hold(r)
  /\ IF html[r] # ""
       THEN SetStatus(r, "Success") /\ Goto(r, "extract")
       ELSE SetStatus(r, "Could not fetch website content") /\ Goto(r, "finish")
  /\ Log(r, "status")
  /\ probe' = Set(probe, r, NoProbe)
  /\ UNCHANGED <<envVars, crawlerVars, inputVars, loopVars, website, start, html, exc>>

\* if html_content: ... else: status = "Could not fetch website content"
Fetched(r) ==
  /\ pc[r] = "fetched" /\ CanRun(r) /\ Hold(r)
  /\ IF html[r] # ""
       THEN Goto(r, "extract") /\ UNCHANGED <<rec, steps>>
       ELSE /\ SetStatus(r, "Could not fetch website content")
            /\ Goto(r, "finish")
            /\ Log(r, "status")
  /\ probe' = Set(probe, r, NoProbe)
  /\ UNCHANGED <<envVars, crawlerVars, inputVars, loopVars, website, start, html, exc>>

\* extract_facebook_info: "if not self.driver: self.setup_headless_browser()"
FacebookSetup(d0, setup_ok) ==
  IF d0.open THEN d0
  ELSE IF setup_ok THEN [open |-> TRUE, page_load_timeout |-> 5]
  ELSE NoDriver
\* the driver after extract_facebook_info ran with driver d1: with a browser
\* it sets the page-load timeout to 15 before the load, and no path of the
\* function closes the browser
FacebookDriver(d1) == IF d1.open THEN [d1 EXCEPT !.page_load_timeout = 15] ELSE d1

\* Extract without the test of company_data.facebook_page
ExtractAlwaysSocial(r) ==
  /\ pc[r] = "extract" /\ CanRun(r) /\ Hold(r)
  /\ rec' = Set(rec, r, Merge(rec[r], extract_company_info_with_ai(PageOf(html[r]))))
  /\ Goto(r, "social")
  /\ steps' = Set(steps, r, steps[r] \o <<"extract", "merge">>)
  /\ UNCHANGED <<envVars, crawlerVars, inputVars, loopVars, website, start, html, probe, exc>>

\* company_info = await self.extract_company_info_with_ai(...); merge
Extract(r) ==
  /\ pc[r] = "extract" /\ CanRun(r) /\ Hold(r)
  /\ LET merged == Merge(rec[r], extract_company_info_with_ai(PageOf(html[r]))) IN
       /\ rec' = Set(rec, r, merged)
       /\ Goto(r, IF merged["facebook_page"] # "" THEN "social" ELSE "success")
  /\ steps' = Set(steps, r, steps[r] \o <<"extract", "merge">>)
  /\ UNCHANGED <<envVars, crawlerVars, inputVars, loopVars, website, start, html, probe, exc>>

\* fb_info = await self.extract_facebook_info(company_data.facebook_page); merge.
\* No suspension point inside.  The browser is created when absent (setup_ok)
\* and its page-load timeout is set to 15 before the page is loaded.
Social(r) ==
  /\ pc[r] = "social" /\ CanRun(r) /\ Hold(r)
  /\ \E setup_ok \in BOOLEAN, obs \in FbObs :
       LET a == appOf(r)
           d1 == FacebookSetup(driver[a], setup_ok)
           fb_info == extract_facebook_info(rec[r]["facebook_page"], d1.open, obs)
       IN /\ driver' = [driver EXCEPT ![a] = FacebookDriver(d1)]
          /\ rec' = Set(rec, r, Merge(rec[r], fb_info))
  /\ steps' = Set(steps, r, steps[r] \o <<"social", "merge">>)
  /\ Goto(r, "success")
  /\ UNCHANGED <<envVars, session, inputVars, loopVars, website, start, html, probe, exc>>

\* company_data.status = "Success"
Success(r) ==
  /\ pc[r] = "success" /\ CanRun(r) /\ Hold(r)
  /\ SetStatus(r, "Success")
  /\ Log(r, "status")
  /\ Goto(r, "finish")
  /\ UNCHANGED <<envVars, crawlerVars, inputVars, loopVars, website, start, html, probe, exc>>

\* Handler without the exception's message
HandlerNoMessage(r) ==
  /\ pc[r] = "handler" /\ CanRun(r) /\ Hold(r)
  /\ SetStatus(r, "Error: ")
  /\ exc' = Set(exc, r, "none")
  /\ Log(r, "status")
  /\ Goto(r, "finish")
  /\ UNCHANGED <<envVars, crawlerVars, inputVars, loopVars, website, start, html, probe>>

\* except Exception as e: company_data.status = f"Error: {str(e)}"
Handler(r) ==
  /\ pc[r] = "handler" /\ CanRun(r) /\ Hold(r)
  /\ SetStatus(r, "Error: " \o exc[r])
  /\ exc' = Set(exc, r, "none")
  /\ Log(r, "status")
  /\ Goto(r, "finish")
  /\ UNCHANGED <<envVars, crawlerVars, inputVars, loopVars, website, start, html, probe>>

\* Finish with the operands of the subtraction exchanged
FinishReversed(r) ==
  /\ pc[r] = "finish" /\ CanRun(r) /\ Hold(r)
  /\ rec' = [rec EXCEPT ![r]["processing_time"] = start[r] - now[r]]
  /\ Log(r, "time")
  /\ Goto(r, "returned")
  /\ UNCHANGED <<envVars, crawlerVars, inputVars, loopVars, website, start, html, probe, exc>>

\* company_data.processing_time = round(time.time() - start_time, 2); return
Finish(r) ==
  /\ pc[r] = "finish" /\ CanRun(r) /\ Hold(r)
  /\ rec' = [rec EXCEPT ![r]["processing_time"] = now[r] - start[r]]
  /\ Log(r, "time")
  /\ Goto(r, "returned")
  /\ UNCHANGED <<envVars, crawlerVars, inputVars, loopVars, website, start, html, probe, exc>>

(* ----------------------------- batch loops ---------------------------- *)

\* the caller has taken the returned record: the locals of the call are gone
Return(r) ==
  /\ now' = Set(now, r, 0)
  /\ rec' = Set(rec, r, NoRecord)
  /\ website' = Set(website, r, "")
  /\ start' = Set(start, r, 0)
  /\ html' = Set(html, r, "")
  /\ steps' = Set(steps, r, <<>>)

\* str.lower() on the cells of the model
Lower(s) == CASE s = "Acme" -> "acme" [] s = "Medcare" -> "medcare" [] s = "AB" -> "ab" [] OTHER -> s

Rows == [name : Names, website : GivenWebsiteCells]
NoJob ==
  [status |-> "none", total_companies |-> 0, processed_companies |-> 0, success_count |-> 0,
   failure_count |-> 0, current_company |-> "", end_time_set |-> FALSE, error_message |-> ""]
NoBc == [size |-> 0, left |-> 0, failed |-> 0, ret |-> "none"]

AtRow(r, k, p) == kind[r] = k /\ pc[r] = p
LoopEnded(r) == idx[r] > nrows[r]

(* process_csv, ai_server.py *)

\* for idx, row in df.iterrows(): the name test and the website cell
CsvLoop(r) ==
  /\ AtRow(r, "csv", "loop") /\ CanRun(r)
  /\ IF LoopEnded(r)
       THEN Goto(r, "done") /\ Yield(r) /\ UNCHANGED <<rows, idx, cname, website>>
       ELSE \E row \in Rows :
            /\ rows' = Set(rows, r, Append(rows[r], row.name))
            /\ IF row.name = "" \/ Lower(row.name) \in {"nan", "none", ""}
              THEN /\ idx' = Set(idx, r, idx[r] + 1)
                   /\ Goto(r, "loop") /\ Hold(r)
                   /\ UNCHANGED <<cname, website>>
              ELSE /\ cname' = Set(cname, r, row.name)
                   /\ website' = Set(website, r,
                        IF Lower(row.website) \in {"nan", "none", ""} THEN "" ELSE row.website)
                   /\ Goto(r, "call") /\ Hold(r)
                   /\ UNCHANGED idx
  /\ UNCHANGED <<envVars, crawlerVars, inputVars, results, job, bc, rec, start, html, probe, exc, steps>>

\* CsvRecord leaving the loop after a company that did not succeed
CsvRecordStopOnFailure(r) ==
  /\ AtRow(r, "csv", "returned") /\ CanRun(r) /\ Hold(r)
  /\ results' = Set(results, r, Append(results[r], ResultRow(rec[r])))
  /\ Goto(r, IF rec[r]["status"] = "Success" THEN "sleep" ELSE "done")
  /\ Return(r)
  /\ UNCHANGED <<ws, crawlerVars, inputVars, rows, idx, job, bc, cname, probe, exc>>

\* results.append(result)
CsvRecord(r) ==
  /\ AtRow(r, "csv", "returned") /\ CanRun(r) /\ Hold(r)
  /\ results' = Set(results, r, Append(results[r], ResultRow(rec[r])))
  /\ Goto(r, "sleep")
  /\ Return(r)
  /\ UNCHANGED <<ws, crawlerVars, inputVars, rows, idx, job, bc, cname, probe, exc>>

\* await asyncio.sleep(1), then the next row
Sleep(r) ==
  /\ pc[r] = "sleep" /\ CanRun(r) /\ Yield(r)
  /\ idx' = Set(idx, r, idx[r] + 1)
  /\ Goto(r, "loop")
  /\ UNCHANGED <<envVars, crawlerVars, inputVars, rows, results, job, bc, cname, website, rec, start,
                 html, probe, exc, steps>>

(* WebCrawler.process_companies_with_updates, webapp.py *)

\* active_jobs[job_id] = JobStatus(status="processing", ...)
WebJobInit(r) ==
  /\ AtRow(r, "web", "init") /\ CanRun(r) /\ Hold(r)
  /\ job' = Set(job, r, [NoJob EXCEPT !.status = "processing", !.total_companies = nrows[r]])
  /\ Goto(r, "loop")
  /\ UNCHANGED <<envVars, crawlerVars, inputVars, rows, idx, results, bc, cname, website, rec, start,
                 html, probe, exc, steps>>

\* the for loop head; after the loop: status = "completed", end_time
WebLoop(r) ==
  /\ AtRow(r, "web", "loop") /\ CanRun(r) /\ Hold(r)
  /\ IF LoopEnded(r)
       THEN /\ job' = Set(job, r, [job[r] EXCEPT !.status = "completed", !.end_time_set = TRUE,
                                                  !.current_company = "Processing completed"])
            /\ bc' = Set(bc, r, [NoBc EXCEPT !.ret = "end"])
            /\ Goto(r, "bcast")
            /\ UNCHANGED <<rows, idx, cname, website>>
       ELSE \E row \in Rows :
            /\ rows' = Set(rows, r, Append(rows[r], row.name))
            /\ IF row.name = "" \/ Lower(row.name) \in {"nan", "none"}
              THEN /\ idx' = Set(idx, r, idx[r] + 1)
                   /\ Goto(r, "loop")
                   /\ UNCHANGED <<job, bc, cname, website>>
              ELSE /\ cname' = Set(cname, r, row.name)
                   /\ website' = Set(website, r, row.website)
                   /\ job' = Set(job, r, [job[r] EXCEPT !.current_company = row.name])
                   /\ bc' = Set(bc, r, [NoBc EXCEPT !.ret = "call"])
                   /\ Goto(r, "bcast")
                   /\ UNCHANGED idx
  /\ UNCHANGED <<envVars, crawlerVars, inputVars, results, rec, start, html, probe, exc, steps>>

\* broadcast_update up to the first send: for ws_id, websocket in
\* websocket_connections.items(): await websocket.send_text(...)
Broadcast(r) ==
  /\ AtRow(r, "web", "bcast") /\ CanRun(r)
  /\ IF ws = 0
       THEN /\ Goto(r, IF bc[r].ret \in {"end", "final"} THEN "done" ELSE bc[r].ret)
            /\ IF bc[r].ret \in {"end", "final"} THEN Yield(r) ELSE Hold(r)
            /\ bc' = Set(bc, r, NoBc)
       ELSE /\ bc' = Set(bc, r, [bc[r] EXCEPT !.size = ws, !.left = ws, !.failed = 0])
            /\ Goto(r, "bcast_send") /\ Yield(r)
  /\ UNCHANGED <<envVars, crawlerVars, inputVars, rows, idx, results, job, cname, website, rec, start,
                 html, probe, exc, steps>>

\* str(e) of the RuntimeError of a dictionary iterator
BroadcastError == "dictionary changed size during iteration"

\* the send returns (sent: it succeeded, else the socket joins `disconnected`);
\* the iterator's next step raises RuntimeError when the dictionary changed
\* size meanwhile; after the last item the disconnected sockets are popped
BroadcastResume(r) ==
  /\ AtRow(r, "web", "bcast_send") /\ CanRun(r)
  /\ \E sent \in BOOLEAN :
       LET failed == bc[r].failed + (IF sent THEN 0 ELSE 1) IN
       IF ws # bc[r].size
         THEN /\ exc' = Set(exc, r, BroadcastError)
              /\ Goto(r, IF bc[r].ret = "final" THEN "crashed" ELSE "web_except")
              /\ IF bc[r].ret = "final" THEN Yield(r) ELSE Hold(r)
              /\ bc' = Set(bc, r, NoBc)
              /\ UNCHANGED ws
         ELSE IF bc[r].left > 1
           THEN /\ bc' = Set(bc, r, [bc[r] EXCEPT !.left = @ - 1, !.failed = failed])
                /\ Goto(r, "bcast_send") /\ Yield(r)
                /\ UNCHANGED <<ws, exc>>
         ELSE /\ ws' = ws - failed
              /\ Goto(r, IF bc[r].ret \in {"end", "final"} THEN "done" ELSE bc[r].ret)
              /\ IF bc[r].ret \in {"end", "final"} THEN Yield(r) ELSE Hold(r)
              /\ bc' = Set(bc, r, NoBc)
              /\ UNCHANGED exc
  /\ UNCHANGED <<now, crawlerVars, inputVars, rows, idx, results, job, cname, website, rec, start,
                 html, probe, steps>>

\* the outer handler: status = "failed", error_message, end_time; broadcast
WebExcept(r) ==
  /\ AtRow(r, "web", "web_except") /\ CanRun(r) /\ Hold(r)
  /\ job' = Set(job, r, [job[r] EXCEPT !.status = "failed", !.error_message = exc[r],
                                         !.end_time_set = TRUE])
  /\ exc' = Set(exc, r, "none")
  /\ bc' = Set(bc, r, [NoBc EXCEPT !.ret = "final"])
  /\ Goto(r, "bcast")
  /\ UNCHANGED <<envVars, crawlerVars, inputVars, rows, idx, results, cname, website, rec, start,
                 html, probe, steps>>

\* WebRecord with a record that is appended but counted only when it succeeded
WebRecordUncountedFailure(r) ==
  /\ AtRow(r, "web", "returned") /\ CanRun(r) /\ Hold(r)
  /\ results' = Set(results, r, Append(results[r], ResultRow(rec[r])))
  /\ job' = Set(job, r,
       [job[r] EXCEPT !.success_count = IF rec[r]["status"] = "Success" THEN @ + 1 ELSE @,
                      !.failure_count = @,
                      !.processed_companies = @ + 1])
  /\ bc' = Set(bc, r, [NoBc EXCEPT !.ret = "sleep"])
  /\ Goto(r, "bcast")
  /\ Return(r)
  /\ UNCHANGED <<ws, crawlerVars, inputVars, rows, idx, cname, probe, exc>>

\* result_dict, the counters, results.append, processed_companies += 1
WebRecord(r) ==
  /\ AtRow(r, "web", "returned") /\ CanRun(r) /\ Hold(r)
  /\ results' = Set(results, r, Append(results[r], ResultRow(rec[r])))
  /\ job' = Set(job, r,
       [job[r] EXCEPT !.success_count = IF rec[r]["status"] = "Success" THEN @ + 1 ELSE @,
                      !.failure_count = IF rec[r]["status"] = "Success" THEN @ ELSE @ + 1,
                      !.processed_companies = @ + 1])
  /\ bc' = Set(bc, r, [NoBc EXCEPT !.ret = "sleep"])
  /\ Goto(r, "bcast")
  /\ Return(r)
  /\ UNCHANGED <<ws, crawlerVars, inputVars, rows, idx, cname, probe, exc>>

\* websocket_endpoint: a client connects / disconnects
WebInUse == \E r \in Runners : kind[r] = "web"
WsConnect ==
  /\ WebInUse /\ running["web"] = 0 /\ ws < MaxWs
  /\ ws' = ws + 1
  /\ UNCHANGED <<now, crawlerVars, running, inputVars, loopVars, pc, website, rec, start, html,
                 probe, exc, steps>>
WsDisconnect ==
  /\ WebInUse /\ running["web"] = 0 /\ ws > 0
  /\ ws' = ws - 1
  /\ UNCHANGED <<now, crawlerVars, running, inputVars, loopVars, pc, website, rec, start, html,
                 probe, exc, steps>>

(* process_companies_realtime, run.py: a client of /process-single/ *)

\* a row of the client's output that did not come from the server
ClientErrorRow(name, site, st) == ResultRow(NewRecord(name, site, "", st))

\* for idx, row in df.iterrows(): no test of the name; a NaN website cell is ''
ClientLoop(r) ==
  /\ AtRow(r, "client", "loop")
  /\ IF LoopEnded(r)
       THEN Goto(r, "done") /\ UNCHANGED <<rows, cname, website>>
       ELSE \E row \in Rows :
            /\ rows' = Set(rows, r, Append(rows[r], row.name))
            /\ cname' = Set(cname, r, row.name)
            /\ website' = Set(website, r, IF row.website = "nan" THEN "" ELSE row.website)
            /\ Goto(r, "request")
  /\ UNCHANGED <<envVars, crawlerVars, running, inputVars, idx, results, job, bc, rec, start,
                 html, probe, exc, steps>>

\* requests.post(.../process-single/): the request reaches the server, which
\* runs process_single_company, or the call raises (connection refused)
ClientRequest(r) ==
  /\ AtRow(r, "client", "request")
  /\ \E delivered \in BOOLEAN :
       IF delivered
         THEN Goto(r, "call") /\ UNCHANGED <<results, idx>>
         ELSE /\ results' = Set(results, r, Append(results[r],
                   ClientErrorRow(cname[r], website[r], "Error: connection refused")))
              /\ idx' = Set(idx, r, idx[r] + 1)
              /\ Goto(r, "loop")
  /\ UNCHANGED <<envVars, crawlerVars, running, inputVars, rows, job, bc, cname, website, rec, start,
                 html, probe, exc, steps>>

\* the server returns the record; the client sees status 200, another status,
\* or has timed out meanwhile
ClientResponse(r) ==
  /\ AtRow(r, "client", "returned") /\ CanRun(r) /\ Yield(r)
  /\ \E out \in {"ok", "server_error", "timeout"} :
       results' = Set(results, r, Append(results[r],
         CASE out = "ok" -> ResultRow(rec[r])
           [] out = "server_error" -> ClientErrorRow(cname[r], website[r], "Server error: Error")
           [] out = "timeout" -> ClientErrorRow(cname[r], website[r], "Timeout")))
  /\ idx' = Set(idx, r, idx[r] + 1)
  /\ Goto(r, "loop")
  /\ Return(r)
  /\ UNCHANGED <<ws, crawlerVars, inputVars, rows, job, bc, cname, probe, exc>>

(* ------------------------------ the clock ----------------------------- *)

\* the requests of a call are the places where it waits: the code between two
\* of them is taken to run in no time
AwaitPcs == {"probe_recv", "fetch_recv"}

\* time passes for a call that waits for a response
Tick ==
  /\ \E r \in Runners :
       /\ pc[r] \in AwaitPcs /\ now[r] < MaxClock
       /\ now' = Set(now, r, now[r] + 1)
  /\ UNCHANGED <<ws, crawlerVars, running, inputVars, loopVars, pc, website, rec, start, html,
                 probe, exc, steps>>

(* ------------------- the pure functions, on a bench ------------------- *)

NoBench ==
  [op |-> "none", arg |-> "", env |-> EmptyMap, record |-> NoRecord, info |-> EmptyMap,
   out |-> NoRecord, again |-> NoRecord]

\* records and extraction results over three of the fields
BenchFields == {"phone_number", "city", "facebook_page_name"}
BenchRecords ==
  { [f \in Fields |-> IF f \in S THEN "old " \o f ELSE NewRecord("Acme", "acme.com", "t0", "")[f]] :
      S \in SUBSET BenchFields }
BenchInfos ==
  UNION { [K -> {"", "new"}] : K \in SUBSET BenchFields }
BenchUrls ==
  {"", "https://facebook.com/acme", "https://www.facebook.com/AcmeHealth?ref=123",
   "https://facebook.com/profile.php?id=1", "https://facebook.com/a_b"}

progVars == <<now, driver, session, running, ws, kind, nrows, rows, idx, results, job, bc,
              pc, cname, website, rec, start, html, probe, exc, steps, up>>

\* the merge of process_company applied once and twice
MergeApplied ==
  /\ \E r0 \in BenchRecords, info \in BenchInfos :
       bench' = [op |-> "merge", arg |-> "", env |-> EmptyMap, record |-> r0, info |-> info,
                 out |-> Merge(r0, info), again |-> Merge(Merge(r0, info), info)]
  /\ UNCHANGED progVars

\* the pages of the fetches, two more with phone-like numbers only and one
\* with several social links
BenchPages ==
  Pages \cup {"page_phone_mixed", "page_phone_fake", "page_two_links",
              "page_address_mixed", "page_address_both"}

\* the part of extract_company_info_with_ai in which an exception is raised:
\* the three inline parts and the three helper calls, in the order of the code
BaseStages == <<"phone", "email", "social", "address", "contact", "location">>

\* extract_company_info_with_ai applied to a page; on a page that parses, any
\* one of its parts may raise
BaseApplied ==
  /\ \E page \in BenchPages, x \in {"none"} \cup {BaseStages[i] : i \in 1..Len(BaseStages)} :
       /\ x # "none" => PageOf(page).raises = "none"
       /\ bench' = [NoBench EXCEPT
                      !.op = "base", !.arg = page, !.env = [raises |-> x],
                      !.info = extract_company_info_with_ai(
                                 IF x = "none" THEN PageOf(page)
                                 ELSE [PageOf(page) EXCEPT !.raises = x])]
  /\ UNCHANGED progVars

\* extract_facebook_info applied to a profile URL
SocialApplied ==
  /\ \E url \in BenchUrls, have_driver \in BOOLEAN, obs \in FbObs :
       bench' = [NoBench EXCEPT !.op = "social", !.arg = url,
                                !.env = [have_driver |-> have_driver, obs |-> obs],
                                !.info = extract_facebook_info(url, have_driver, obs),
                                !.out = FacebookDriver(IF have_driver
                                                         THEN [open |-> TRUE, page_load_timeout |-> 5]
                                                         ELSE NoDriver)]
  /\ UNCHANGED progVars

\* fetch_website_content applied to a URL with or without scheme and to the
\* responses of its first and second attempt
FetchApplied ==
  /\ \E url \in {"acme.com", "https://acme.com", "http://acme.com"},
        r1 \in FetchResponses, r2 \in FetchResponses :
       bench' = [NoBench EXCEPT !.op = "fetch", !.arg = url,
                                !.env = [resps |-> <<r1, r2>>],
                                !.out = fetch_website_content(url, <<r1, r2>>)]
  /\ UNCHANGED progVars

\* the drivers a crawler may hold when a call begins: none, one as set up,
\* one that the social extraction used
BenchDrivers ==
  {NoDriver, [open |-> TRUE, page_load_timeout |-> 5], [open |-> TRUE, page_load_timeout |-> 15]}

\* find_website_browser applied to a search page
BrowserApplied ==
  /\ \E d0 \in BenchDrivers, setup_ok \in BOOLEAN, page \in SearchPages,
        quit1 \in BOOLEAN, quit2 \in BOOLEAN :
       bench' = [NoBench EXCEPT
                   !.op = "browser",
                   !.env = [driver |-> d0, setup_ok |-> setup_ok, page |-> page],
                   !.out = find_website_browser(d0, setup_ok, SearchOutcomeOf(page),
                                                IF page.wait = "ok" THEN first_result(page.results)
                                                ELSE "",
                                                quit1, quit2)]
  /\ UNCHANGED progVars

\* a candidate list that leaves out what an earlier call has seen
CandidatesSharedSeen(name, earlier) ==
  SelectSeq(Candidates(name), LAMBDA d : d \notin DomainsOf(earlier))
\* the candidate list of a call made after a call for `earlier`:
\* potential_domains, seen and unique_domains are locals, created by each call
CandidatesAfter(name, earlier) == Candidates(name)

\* a name with a keyword whose first two words are not keywords: every
\* pattern gives a candidate of its own
LongNames == {"Ace Home Care"}
\* the candidate generation of find_website_fallback run for a name, and run
\* again for the same name after a call for another (or the same) name
CandidatesApplied ==
  /\ \E name \in AllNames \cup LongNames, earlier \in AllNames :
       bench' = [NoBench EXCEPT !.op = "candidates", !.arg = name,
                                !.env = [earlier |-> earlier],
                                !.out = Candidates(name),
                                !.again = CandidatesAfter(name, earlier)]
  /\ UNCHANGED progVars

RelevanceUrls ==
  {"https://care.com", "http://health.com", "https://www.care.com", "https://acme.com",
   "https://careinc.com"}

\* validate_website_relevance applied to a name, a page and a URL
RelevanceApplied ==
  /\ \E name \in AllNames, url \in RelevanceUrls :
       \E content \in SUBSET {SignificantWords(name)[i] : i \in 1..Len(SignificantWords(name))} :
         bench' = [NoBench EXCEPT !.op = "relevance", !.arg = name,
                                  !.env = [content |-> content, url |-> url],
                                  !.out = validate_website_relevance(name, content, url)]
  /\ UNCHANGED progVars

(* --------------------------- specifications --------------------------- *)

FirstPc(k) == CASE k = "web" -> "init" [] k = "off" -> "off" [] OTHER -> "loop"

InitCommon ==
  /\ now = [r \in Runners |-> 0]
  /\ bench = NoBench
  /\ driver = [a \in Apps |-> NoDriver]
  /\ session = [a \in Apps |-> "open"]
  /\ up = [a \in Apps |-> TRUE]
  /\ running = [a \in Apps |-> 0]
  /\ ws = 0
  /\ rows = [r \in Runners |-> <<>>]
  /\ idx = [r \in Runners |-> 1]
  /\ results = [r \in Runners |-> <<>>]
  /\ job = [r \in Runners |-> NoJob]
  /\ bc = [r \in Runners |-> NoBc]
  /\ pc = [r \in Runners |-> FirstPc(kind[r])]
  /\ cname = [r \in Runners |-> ""]
  /\ website = [r \in Runners |-> ""]
  /\ rec = [r \in Runners |-> NoRecord]
  /\ start = [r \in Runners |-> 0]
  /\ html = [r \in Runners |-> ""]
  /\ probe = [r \in Runners |-> NoProbe]
  /\ exc = [r \in Runners |-> "none"]
  /\ steps = [r \in Runners |-> <<>>]

\* one batch job of any kind over an input of at most MaxRows rows; the rows
\* are drawn when the loop reads them
Init ==
  /\ \E k \in Kinds : kind = [r \in Runners |-> IF r = 1 THEN k ELSE "off"]
  /\ \E n \in 0..MaxRows : nrows = [r \in Runners |-> IF r = 1 THEN n ELSE 0]
  /\ InitCommon

Step(r) ==
  \/ PCStart(r) \/ FindWebsiteBrowser(r) \/ FallbackBegin(r) \/ ProbeSend(r) \/ ProbeRecv(r)
  \/ Resolved(r) \/ FetchBegin(r) \/ FetchRecv(r) \/ Fetched(r) \/ Extract(r) \/ Social(r)
  \/ Success(r) \/ Handler(r) \/ Finish(r)
  \/ CsvLoop(r) \/ CsvRecord(r) \/ Sleep(r)
  \/ WebJobInit(r) \/ WebLoop(r) \/ Broadcast(r) \/ BroadcastResume(r) \/ WebExcept(r)
  \/ WebRecord(r)
  \/ ClientLoop(r) \/ ClientRequest(r) \/ ClientResponse(r)

Next == (\E r \in Runners : Step(r)) \/ WsConnect \/ WsDisconnect \/ Tick

Spec == Init /\ [][Next]_vars

(* ------------------------------ shutdown ------------------------------ *)

\* no request or job of the application is in progress
Idle(a) == \A r \in Runners : (kind[r] # "off" /\ appOf(r) = a) => pc[r] \in {"done", "crashed"}

\* CompanyCrawler.close: the session is closed if there is one, then
\* close_browser quits the driver if there is one; driver.quit() may raise,
\* and then self.driver = None is not reached
Close(a) ==
  /\ session' = [session EXCEPT ![a] = IF @ = "open" THEN "closed" ELSE @]
  /\ \E quit_raises \in BOOLEAN :
       driver' = [driver EXCEPT ![a] = IF @.open /\ quit_raises THEN @ ELSE NoDriver]

\* the API server stops: lifespan resumes after its yield and awaits crawler.close()
ShutdownApi ==
  /\ up["api"] /\ Idle("api")
  /\ Close("api")
  /\ up' = [up EXCEPT !["api"] = FALSE]
  /\ UNCHANGED <<envVars, running, kind, nrows, bench, loopVars, pc, website, rec, start, html,
                 probe, exc, steps>>

\* the web application stops: it registers a startup handler only, so
\* nothing of web_crawler is touched
ShutdownWeb ==
  /\ up["web"] /\ Idle("web")
  /\ up' = [up EXCEPT !["web"] = FALSE]
  /\ UNCHANGED <<envVars, crawlerVars, running, kind, nrows, bench, loopVars, pc, website, rec,
                 start, html, probe, exc, steps>>

\* one batch job of at most one row in either application, and the shutdown
\* of the applications
InitLife ==
  /\ \E k \in Kinds : kind = [r \in Runners |-> IF r = 1 THEN k ELSE "off"]
  /\ \E n \in 0..1 : nrows = [r \in Runners |-> IF r = 1 THEN n ELSE 0]
  /\ InitCommon
NextLife == Next \/ ShutdownApi \/ ShutdownWeb
SpecLife == InitLife /\ [][NextLife]_vars

\* the resolution of the website of one company, requested through
\* /process-single/ with an empty website, up to the point where
\* process_company has the result of find_company_website
InitResolve ==
  /\ kind = [r \in Runners |-> IF r = 1 THEN "client" ELSE "off"]
  /\ nrows = [r \in Runners |-> IF r = 1 THEN 1 ELSE 0]
  /\ now = [r \in Runners |-> 0]
  /\ bench = NoBench
  /\ driver = [a \in Apps |-> NoDriver]
  /\ session = [a \in Apps |-> "open"]
  /\ up = [a \in Apps |-> TRUE]
  /\ running = [a \in Apps |-> 0]
  /\ ws = 0
  /\ \E name \in ResolveNames :
       /\ rows = [r \in Runners |-> IF r = 1 THEN <<name>> ELSE <<>>]
       /\ cname = [r \in Runners |-> IF r = 1 THEN name ELSE ""]
  /\ idx = [r \in Runners |-> 1]
  /\ results = [r \in Runners |-> <<>>]
  /\ job = [r \in Runners |-> NoJob]
  /\ bc = [r \in Runners |-> NoBc]
  /\ pc = [r \in Runners |-> IF r = 1 THEN "call" ELSE "off"]
  /\ website = [r \in Runners |-> ""]
  /\ rec = [r \in Runners |-> NoRecord]
  /\ start = [r \in Runners |-> 0]
  /\ html = [r \in Runners |-> ""]
  /\ probe = [r \in Runners |-> NoProbe]
  /\ exc = [r \in Runners |-> "none"]
  /\ steps = [r \in Runners |-> <<>>]
NextResolve ==
  \/ \E r \in Runners :
       \/ PCStart(r) \/ FindWebsiteBrowser(r) \/ FallbackBegin(r) \/ ProbeSend(r)
       \/ ProbeRecv(r) \/ Resolved(r)
  \/ Tick
SpecResolve == InitResolve /\ [][NextResolve]_vars

\* the pure functions applied to inputs of the bench
(* the browser functions step by step: the test of self.driver and the uses
   of the driver are separate steps of a task, and other tasks of the same
   crawler run wherever the task awaits *)

\* what the fine-grained steps leave alone
handleFrame ==
  <<now, session, up, ws, kind, nrows, rows, results, job, bc, cname, website, rec, start,
    html, probe, exc, steps, bench>>
\* a step that ends at an await releases the loop, any other step keeps it
Awaits == {"await_fetch", "await_next", "done"}
RunTo(r, to) == Goto(r, to) /\ IF to \in Awaits THEN Yield(r) ELSE Hold(r)

\* a test of self.driver after which the task is suspended before it uses
\* the driver
DriverCheckedThenSuspended(r, at, use, skip) ==
  /\ pc[r] = at /\ CanRun(r)
  /\ \E setup_ok \in BOOLEAN :
       LET d1 == FacebookSetup(driver[appOf(r)], setup_ok) IN
       /\ driver' = [driver EXCEPT ![appOf(r)] = d1]
       /\ Goto(r, IF d1.open THEN use ELSE skip) /\ Yield(r)
  /\ UNCHANGED <<handleFrame, idx>>
\* if not self.driver: self.setup_headless_browser(); if not self.driver: return
\* (find_website_browser 225-229, extract_facebook_info 521-526): no await
\* between the test and the use
DriverChecked(r, at, use, skip) ==
  /\ pc[r] = at /\ CanRun(r)
  /\ \E setup_ok \in BOOLEAN :
       LET d1 == FacebookSetup(driver[appOf(r)], setup_ok) IN
       /\ driver' = [driver EXCEPT ![appOf(r)] = d1]
       /\ RunTo(r, IF d1.open THEN use ELSE skip)
  /\ UNCHANGED <<handleFrame, idx>>

\* find_website_browser: the test, then driver.get and the reads of the
\* results; an error closes the browser; the function returns and the caller
\* awaits a request of the guess or of the fetch
BrowserCheck(r) == DriverChecked(r, "b_check", "b_use", "await_fetch")
BrowserUse(r) ==
  /\ pc[r] = "b_use" /\ CanRun(r)
  /\ \E out \in SearchOutcomes :
       driver' = [driver EXCEPT ![appOf(r)] = IF out = "error" THEN NoDriver ELSE @]
  /\ RunTo(r, "await_fetch")
  /\ UNCHANGED <<handleFrame, idx>>
\* async with self.session.get(...): the task resumes after the request; the
\* page may or may not lead to the social extraction
AwaitFetch(r) ==
  /\ pc[r] = "await_fetch" /\ CanRun(r)
  /\ \E social \in BOOLEAN : RunTo(r, IF social THEN "f_check" ELSE "await_next")
  /\ UNCHANGED <<handleFrame, driver, idx>>
\* extract_facebook_info: the test, then set_page_load_timeout(15),
\* driver.get and the reads of the page, none of which closes the browser
FacebookCheck(r) == DriverChecked(r, "f_check", "f_use", "await_next")
FacebookUse(r) ==
  /\ pc[r] = "f_use" /\ CanRun(r)
  /\ driver' = [driver EXCEPT ![appOf(r)] = FacebookDriver(@)]
  /\ RunTo(r, "await_next")
  /\ UNCHANGED <<handleFrame, idx>>
\* the loop of the job resumes after its awaits (broadcast, asyncio.sleep(1))
\* and takes the next company
AwaitNext(r) ==
  /\ pc[r] = "await_next" /\ CanRun(r)
  /\ idx' = Set(idx, r, idx[r] + 1)
  /\ RunTo(r, IF idx[r] >= nrows[r] THEN "done" ELSE "b_check")
  /\ UNCHANGED <<handleFrame, driver>>

\* two web jobs on the crawler of webapp, each of MaxRows + 1 companies
InitHandle ==
  /\ kind = [r \in Runners |-> "web"]
  /\ nrows = [r \in Runners |-> MaxRows + 1]
  /\ now = [r \in Runners |-> 0]
  /\ bench = NoBench
  /\ driver = [a \in Apps |-> NoDriver]
  /\ session = [a \in Apps |-> "open"]
  /\ up = [a \in Apps |-> TRUE]
  /\ running = [a \in Apps |-> 0]
  /\ ws = 0
  /\ rows = [r \in Runners |-> <<>>]
  /\ idx = [r \in Runners |-> 1]
  /\ results = [r \in Runners |-> <<>>]
  /\ job = [r \in Runners |-> NoJob]
  /\ bc = [r \in Runners |-> NoBc]
  /\ pc = [r \in Runners |-> "b_check"]
  /\ cname = [r \in Runners |-> ""]
  /\ website = [r \in Runners |-> ""]
  /\ rec = [r \in Runners |-> NoRecord]
  /\ start = [r \in Runners |-> 0]
  /\ html = [r \in Runners |-> ""]
  /\ probe = [r \in Runners |-> NoProbe]
  /\ exc = [r \in Runners |-> "none"]
  /\ steps = [r \in Runners |-> <<>>]
NextHandle ==
  \E r \in Runners :
    \/ BrowserCheck(r) \/ BrowserUse(r) \/ AwaitFetch(r)
    \/ FacebookCheck(r) \/ FacebookUse(r) \/ AwaitNext(r)
SpecHandle == InitHandle /\ [][NextHandle]_vars

\* one call of process_company, with and without a website
GivenWebsites == {"", "acme.com", "https://www.acme.com/"}
InitCall ==
  /\ kind = [r \in Runners |-> IF r = 1 THEN "client" ELSE "off"]
  /\ nrows = [r \in Runners |-> IF r = 1 THEN 1 ELSE 0]
  /\ now = [r \in Runners |-> 0]
  /\ bench = NoBench
  /\ driver = [a \in Apps |-> NoDriver]
  /\ session = [a \in Apps |-> "open"]
  /\ up = [a \in Apps |-> TRUE]
  /\ running = [a \in Apps |-> 0]
  /\ ws = 0
  /\ \E name \in Names \ {"nan"}, site \in GivenWebsites :
       /\ rows = [r \in Runners |-> IF r = 1 THEN <<name>> ELSE <<>>]
       /\ cname = [r \in Runners |-> IF r = 1 THEN name ELSE ""]
       /\ website = [r \in Runners |-> IF r = 1 THEN site ELSE ""]
  /\ idx = [r \in Runners |-> 1]
  /\ results = [r \in Runners |-> <<>>]
  /\ job = [r \in Runners |-> NoJob]
  /\ bc = [r \in Runners |-> NoBc]
  /\ pc = [r \in Runners |-> IF r = 1 THEN "call" ELSE "off"]
  /\ rec = [r \in Runners |-> NoRecord]
  /\ start = [r \in Runners |-> 0]
  /\ html = [r \in Runners |-> ""]
  /\ probe = [r \in Runners |-> NoProbe]
  /\ exc = [r \in Runners |-> "none"]
  /\ steps = [r \in Runners |-> <<>>]
NextCall ==
  \/ \E r \in Runners :
       \/ PCStart(r) \/ FindWebsiteBrowser(r) \/ FallbackBegin(r) \/ ProbeSend(r)
       \/ ProbeRecv(r) \/ Resolved(r) \/ FetchBegin(r) \/ FetchRecv(r) \/ Fetched(r)
       \/ Extract(r) \/ Social(r) \/ Success(r) \/ Handler(r) \/ Finish(r)
  \/ Tick
SpecCall == InitCall /\ [][NextCall]_vars

InitPure ==
  /\ kind = [r \in Runners |-> "off"]
  /\ nrows = [r \in Runners |-> 0]
  /\ InitCommon
NextPure ==
  \/ MergeApplied \/ BaseApplied \/ SocialApplied \/ CandidatesApplied \/ RelevanceApplied
  \/ BrowserApplied \/ FetchApplied
SpecPure == InitPure /\ [][NextPure]_vars

\* two requests in one application: two CSV uploads to the web application
\* (both jobs run on web_crawler), or process_csv next to /process-single/
\* (both run on the global crawler); one company each
InitConc ==
  /\ \E k \in {<<"web", "web">>, <<"csv", "client">>} : kind = [r \in Runners |-> k[r]]
  /\ nrows = [r \in Runners |-> 1]
  /\ InitCommon
SpecConc == InitConc /\ [][Next]_vars

(* ------------------------------- claims ------------------------------- *)

Range(q) == {q[i] : i \in 1..Len(q)}
Returned(r) == pc[r] = "returned"
Raised(r) == "raise" \in Range(steps[r])
Statuses ==
  {"Success", "Website not found", "Could not fetch website content", "Error: " \o QuitError}

\* the position of a step in the order of process_company
Rank(s) ==
  CASE s \in {"search", "raise", "guess"} -> 1
    [] s = "fetch" -> 2
    [] s = "extract" -> 3
    [] s = "social" -> 4
    [] s = "status" -> 5
    [] s = "time" -> 6
First(q, s) == CHOOSE i \in 1..Len(q) : q[i] = s /\ \A j \in 1..(i - 1) : q[j] # s

\* str.lower() not in ['nan', 'none'] and non-empty: a name the loops keep
Parseable(name) == name # "" /\ Lower(name) \notin {"nan", "none"}
NamesOf(q) == [i \in 1..Len(q) |-> q[i].company_name]
Ended(r) == pc[r] \in {"done", "crashed"}

\* the positions of a call of process_company
CallPcs ==
  {"browser", "fallback", "probe_send", "probe_recv", "resolved", "fetch", "fetch_recv",
   "fetched", "extract", "social", "success", "handler", "finish"}
InCall(r) == pc[r] \in CallPcs

\* C1: the record process_company returns has a non-empty status, one of the
\* four outcomes, and a processing_time that is the elapsed time and >= 0, on
\* every path; it is the record of the company asked for.
C1_RecordComplete ==
  \A r \in Runners :
    Returned(r) =>
      /\ rec[r]["status"] # ""
      /\ rec[r]["status"] \in Statuses
      /\ rec[r]["processing_time"] >= 0
      /\ rec[r]["processing_time"] = now[r] - start[r]
      /\ rec[r]["company_name"] = cname[r]
\* C1 witness: a call that failed to fetch returns after time has passed
C1_Witness ==
  \E r \in Runners :
    /\ Returned(r)
    /\ rec[r]["status"] = "Could not fetch website content"
    /\ rec[r]["processing_time"] > 0

\* C2 (as stated): the returned status is 'Success' if and only if content was
\* fetched and no exception was thrown inside extract_company_info_with_ai.
C2_SuccessIffExtractionDidNotThrow ==
  \A r \in Runners :
    Returned(r) =>
      (rec[r]["status"] = "Success" <=> (html[r] # "" /\ ~ThrowsInside(PageOf(html[r]))))
\* C2 (amended): the returned status is 'Success' if and only if content was
\* fetched and no exception reached the handler of process_company; an
\* exception thrown inside extract_company_info_with_ai does not change it.
C2_SuccessIffFetched ==
  \A r \in Runners :
    Returned(r) => (rec[r]["status"] = "Success" <=> (html[r] # "" /\ ~Raised(r)))
\* C2 witness: the extraction threw inside and the record says Success
C2_Witness ==
  \E r \in Runners :
    /\ Returned(r)
    /\ html[r] # "" /\ ThrowsInside(PageOf(html[r]))
    /\ rec[r]["status"] = "Success"

\* C3: the steps of a call run in the order resolve, fetch, base extraction,
\* social extraction; fetch only with a website, base extraction only with
\* non-empty content, social extraction only after base extraction and with a
\* non-empty facebook_page; a call that ends without a website has status
\* 'Website not found', one that ends with empty content 'Could not fetch
\* website content'.
C3_StepOrder ==
  \A r \in Runners :
    LET q == steps[r]
        main == SelectSeq(q, LAMBDA x : x # "merge")
    IN
    /\ \A i, j \in 1..Len(main) : i < j => Rank(main[i]) <= Rank(main[j])
    /\ \A i \in 1..Len(q) : q[i] = "merge" => (i > 1 /\ q[i - 1] \in {"extract", "social"})
    /\ "fetch" \in Range(q) => website[r] # ""
    /\ "extract" \in Range(q) => ("fetch" \in Range(q) /\ html[r] # "")
    /\ "social" \in Range(q) =>
         /\ "extract" \in Range(q) /\ First(q, "extract") < First(q, "social")
         /\ rec[r]["facebook_page"] # ""
    /\ (Returned(r) /\ ~Raised(r) /\ website[r] = "") =>
         (rec[r]["status"] = "Website not found" /\ "fetch" \notin Range(q))
    /\ (Returned(r) /\ website[r] # "" /\ html[r] = "") =>
         (rec[r]["status"] = "Could not fetch website content" /\ "extract" \notin Range(q))
\* C3 witness: a call that ran every step, in order
C3_Witness ==
  \E r \in Runners :
    /\ Returned(r)
    /\ steps[r] = <<"search", "guess", "fetch", "extract", "merge", "social", "merge",
                    "status", "time">>

\* C4: an exception that leaves a step of process_company reaches its handler:
\* the call goes on to return, and the record's status is 'Error: ' followed by
\* the exception's message.
C4_ExceptionBecomesStatus ==
  \A r \in Runners :
    /\ Raised(r) => pc[r] \in {"handler", "finish", "returned"}
    /\ Raised(r) /\ pc[r] = "handler" => exc[r] = QuitError
    /\ Raised(r) /\ pc[r] \in {"finish", "returned"} =>
         rec[r]["status"] = "Error: " \o QuitError
\* C4 witness: a call in which the search raised has returned
C4_Witness ==
  \E r \in Runners :
    Returned(r) /\ Raised(r) /\ rec[r]["status"] = "Error: " \o QuitError

C6_OneRecordPerCompany ==
  \A r \in Runners :
    Ended(r) =>
      NamesOf(SelectSeq(results[r], LAMBDA x : Parseable(x.company_name)))
        = SelectSeq(rows[r], Parseable)

\* C7: a merge leaves a non-empty field of the record as it is when the
\* result's value for the field is empty or absent.
C7_MergeKeepsNonEmpty ==
  bench.op = "merge" =>
    \A f \in StrFields :
      (bench.record[f] # "" /\ (f \notin DOMAIN bench.info \/ bench.info[f] = ""))
        => bench.out[f] = bench.record[f]
\* C7 witness: a merge of an empty value into a non-empty field
C7_Witness ==
  /\ bench.op = "merge"
  /\ \E f \in DOMAIN bench.info :
       bench.record[f] # "" /\ bench.info[f] = "" /\ bench.out[f] = bench.record[f]

\* C8: merging the same result twice gives the record of merging it once.
C8_MergeIdempotent ==
  bench.op = "merge" => bench.again = bench.out
\* C8 witness: a merge that changed the record, applied twice
C8_Witness ==
  /\ bench.op = "merge"
  /\ bench.out # bench.record
  /\ bench.again = bench.out

\* C9: a mapping returned by extract_company_info_with_ai or by
\* extract_facebook_info has no key whose value is the empty string.
C9_NoEmptyValues ==
  bench.op \in {"base", "social"} => \A k \in DOMAIN bench.info : bench.info[k] # ""

\* C10: at most one call of process_company is in progress on one crawler.
C10_OneCallPerCrawler ==
  \A r1, r2 \in Runners :
    (r1 # r2 /\ appOf(r1) = appOf(r2)) => ~(InCall(r1) /\ InCall(r2))

\* C11: when a company's processing has completed and its record is taken,
\* the next thing the batch does is the politeness delay (directly, or after
\* the progress broadcast of the web job): no batch path goes from a finished
\* company straight to the next one.
C11_DelayAfterEachCompany ==
  [][\A r \in Runners :
       (pc[r] = "returned" /\ pc'[r] # "returned") =>
         (pc'[r] = "sleep" \/ (pc'[r] = "bcast" /\ bc'[r].ret = "sleep"))]_vars

\* C12: once an application has shut down, the session of its crawler is
\* closed and its browser has been quit (driver is None).
C12_ReleasedOnShutdown ==
  \A a \in Apps : ~up[a] => (session[a] # "open" /\ ~driver[a].open)

\* Order of the strategies of C13: find_company_website runs the search first, once; the domain guess
\* starts only after the search, and only while the search has given no URL;
\* a result obtained without the guess is the URL of the search, a result of
\* the guess is "" or the URL just accepted, one of the candidates.
C13_Order ==
  \A r \in Runners :
    LET q == steps[r]
        searches == Cardinality({i \in 1..Len(q) : q[i] = "search"})
        guessed == "guess" \in Range(q)
    IN /\ searches <= 1
       /\ guessed => (q[1] = "search" /\ ~Raised(r))
       /\ pc[r] \in {"fallback", "probe_send", "probe_recv"} =>
            (website[r] = "" /\ q[1] = "search")
       /\ pc[r] = "resolved" =>
            /\ q[1] = "search"
            /\ ~guessed => website[r] = SearchUrl
            /\ guessed =>
                 website[r] \in {""} \cup {Protocols[i] \o d :
                                            i \in 1..Len(Protocols), d \in DomainsOf(cname[r])}

\* the guess returns the URL whose response it has just accepted, which ends
\* its loops; it returns "" only after the last protocol of the last candidate
C13_FirstAccepted ==
  \A r \in Runners :
    (pc[r] = "probe_recv" /\ pc'[r] = "resolved") =>
      \/ website'[r] = ProbeUrl(r)
      \/ /\ website'[r] = ""
         /\ probe[r].p = Len(Protocols)
         /\ probe[r].c = Len(Candidates(cname[r]))

\* C13: both parts, in every step of every behaviour
C13_SearchThenGuess == [](C13_Order) /\ [][C13_FirstAccepted]_vars

\* C13 witness: the search gave nothing and the guess found a URL
C13_Witness ==
  \E r \in Runners :
    pc[r] = "resolved" /\ steps[r] = <<"search", "guess">> /\ website[r] # ""

\* C13 witness of the other end: both strategies are exhausted
C13_WitnessExhausted ==
  \E r \in Runners :
    /\ pc[r] = "resolved" /\ steps[r] = <<"search", "guess">> /\ website[r] = ""
    /\ Candidates(cname[r]) # <<>>

C15_RelevanceThreshold ==
  (bench.op = "relevance" /\ NetlocOf(bench.env.url) \notin GenericDomains) =>
    LET matches == Cardinality(bench.env.content)
    IN /\ (HasHealthWord(bench.arg) /\ matches = 1) => bench.out = TRUE
       /\ (~HasHealthWord(bench.arg) /\ matches = 1) => bench.out = FALSE
       /\ matches >= 2 => bench.out = TRUE

\* C15 witness: a healthcare name accepted on its single match
C15_Witness ==
  /\ bench.op = "relevance"
  /\ NetlocOf(bench.env.url) \notin GenericDomains
  /\ HasHealthWord(bench.arg) /\ Cardinality(bench.env.content) = 1
  /\ bench.out = TRUE

\* the other two cases of C15 are reached as well: one match refused, two
\* matches accepted for a name outside the sector
C15_WitnessOtherSector ==
  /\ bench.op = "relevance" /\ bench.arg = "Ghost Corp"
  /\ NetlocOf(bench.env.url) \notin GenericDomains
  /\ Cardinality(bench.env.content) = 2 /\ bench.out = TRUE

\* C16: validate_website_relevance is false for every URL whose host is in
\* the blocklist, whatever the name and the page; and the URL the domain
\* guess returns is never on a blocklisted host.
C16_BlocklistRejected ==
  /\ \A name \in AllNames, url \in RelevanceUrls :
       \A content \in SUBSET {SignificantWords(name)[i] : i \in 1..Len(SignificantWords(name))} :
         NetlocOf(url) \in GenericDomains => ~validate_website_relevance(name, content, url)
  /\ \A r \in Runners :
       "guess" \in Range(steps[r]) => NetlocOf(website[r]) \notin GenericDomains

\* C16 witness: the guess for a name whose first candidate is care.com has
\* returned a URL, the one of a later candidate
C16_Witness ==
  \E r \in Runners :
    /\ pc[r] = "resolved" /\ "guess" \in Range(steps[r])
    /\ Candidates(cname[r])[1] \in GenericDomains
    /\ website[r] # ""

\* C17: fetch_website_content never raises; the content it returns is
\* non-empty exactly when the attempt it returns from had status 200, a body
\* longer than 500 characters and '<html' in the body, and is then that
\* body; after any other outcome it has gone on to the next protocol, and
\* returns "" only from the last attempt.
C17_FetchOnlyAccepted ==
  \A r \in Runners :
    /\ pc[r] \in {"fetch_recv", "fetched"} => exc[r] = "none"
    /\ pc[r] = "fetched" =>
         LET resp == probe[r].resp
             good == ~resp.raises /\ resp.status = 200 /\ resp.long /\ resp.html_tag
         IN /\ html[r] # "" <=> good
            /\ good => html[r] = resp.body
            /\ ~good => probe[r].p = Len(FetchUrls(website[r]))

\* C17 witness: the first protocol failed and the second attempt gave the
\* content
C17_Witness ==
  \E r \in Runners :
    /\ pc[r] = "fetched" /\ html[r] # ""
    /\ probe[r].p = 2 /\ probe[r].resp.status = 200

\* C17 witness of the empty return: the last attempt gave a short body
C17_WitnessEmpty ==
  \E r \in Runners :
    /\ pc[r] = "fetched" /\ html[r] = ""
    /\ probe[r].resp.status = 200 /\ ~probe[r].resp.long

\* C18: a phone_number in the result of the base extraction is
\* "(AAA) BBB-CCCC" for three groups of 3, 3 and 4 characters found in the
\* page, with AAA none of 000, 111, 123, 555; a page whose phone-like
\* numbers all start with 555 gives no phone_number key.
C18_PhoneFormat ==
  bench.op = "base" =>
    LET page == PageOf(bench.arg)
        found == UNION {Range(page.phone_matches[i]) : i \in 1..Len(page.phone_matches)}
    IN /\ Has(bench.info, "phone_number") =>
            \E m \in found :
              /\ bench.info["phone_number"] = "(" \o m[1] \o ") " \o m[2] \o "-" \o m[3]
              /\ Len(m[1]) = 3 /\ Len(m[2]) = 3 /\ Len(m[3]) = 4
              /\ m[1] \notin {"000", "111", "123", "555"}
       /\ (\A m \in found : m[1] = "555") => ~Has(bench.info, "phone_number")

\* C18 witness: the first pattern finds a placeholder first, the number
\* comes from the next pattern
C18_Witness ==
  /\ bench.op = "base"
  /\ PageOf(bench.arg).phone_matches[1] # <<>>
  /\ PageOf(bench.arg).phone_matches[1][1][1] = "123"
  /\ Has(bench.info, "phone_number")
  /\ bench.info["phone_number"] = "(212) 736-5000"

\* C18 witness of the particular case: only 555 numbers, no phone_number
C18_WitnessOnly555 ==
  /\ bench.op = "base"
  /\ PageOf(bench.arg).phone_matches[1] # <<>>
  /\ \A i \in 1..3 : \A j \in 1..Len(PageOf(bench.arg).phone_matches[i]) :
       PageOf(bench.arg).phone_matches[i][j][1] = "555"
  /\ ~Has(bench.info, "phone_number")

\* the page was loaded in a browser and shows a login or access wall
BehindWall ==
  /\ bench.op = "social" /\ bench.arg # ""
  /\ bench.env.have_driver /\ bench.env.obs.load = "ok"
  /\ (bench.env.obs.title \in {"Log into Facebook", "Facebook - log in"} \/ bench.env.obs.body_wall)

\* C19: behind a login or access wall extract_facebook_info returns exactly
\* the URL fallback: no likes and no about value, and at most a page name,
\* the one derived from the slug of the URL ("Acmehealth" for
\* https://www.facebook.com/AcmeHealth?ref=123).
C19_WallGivesUrlFallback ==
  BehindWall =>
    /\ bench.info = extract_facebook_from_url(bench.arg)
    /\ DOMAIN bench.info \subseteq {"facebook_page_name"}
    /\ bench.arg = "https://www.facebook.com/AcmeHealth?ref=123" =>
         bench.info = [k \in {"facebook_page_name"} |-> "Acmehealth"]
    /\ bench.arg = "https://facebook.com/profile.php?id=1" => bench.info = EmptyMap

\* C19 witness: the example of the specification, on a page whose meta
\* tags, heading and like count are there behind the wall
C19_Witness ==
  /\ BehindWall
  /\ bench.arg = "https://www.facebook.com/AcmeHealth?ref=123"
  /\ bench.env.obs.body_wall /\ bench.env.obs.likes_match # ""
  /\ bench.info = [k \in {"facebook_page_name"} |-> "Acmehealth"]

\* a public page was loaded and one of the strategies raised
StrategyRaised ==
  /\ bench.op = "social" /\ bench.arg # ""
  /\ bench.env.have_driver /\ bench.env.obs.load = "ok"
  /\ ~(bench.env.obs.title \in {"Log into Facebook", "Facebook - log in"} \/ bench.env.obs.body_wall)
  /\ bench.env.obs.raises # "none"

\* what the strategies have put into the result when the exception is raised
Accumulated(obs) ==
  CASE obs.raises \in {"meta_title", "meta_description"} -> FbMetaTags(obs, FbResultInit)
    [] obs.raises = "heading" -> FbTitleAndHeading(obs, FbMetaTags(obs, FbResultInit))
    [] OTHER -> FbLikes(obs, FbTitleAndHeading(obs, FbMetaTags(obs, FbResultInit)))

\* C20: when a strategy raises, extract_facebook_info still returns its
\* three-key result with every value the strategies had accumulated before;
\* the page name comes from the URL only when no strategy gave one.
C20_PartialResultKept ==
  /\ StrategyRaised =>
       /\ DOMAIN bench.info = FbKeys
       /\ \A k \in FbKeys :
            Accumulated(bench.env.obs)[k] # "" => bench.info[k] = Accumulated(bench.env.obs)[k]
  /\ (bench.op = "social" /\ bench.arg # "" /\ bench.env.have_driver
        /\ bench.env.obs.load = "ok" /\ ~BehindWall) =>
       LET obs == bench.env.obs
           res == FbAbout(obs, FbLikes(obs, FbTitleAndHeading(obs, FbMetaTags(obs, FbResultInit))))
       IN IF res["facebook_page_name"] # "" THEN bench.info = res
          ELSE /\ \A k \in FbKeys \ {"facebook_page_name"} : bench.info[k] = res[k]
               /\ bench.info["facebook_page_name"] \in {"", "Acme", "Acmehealth"}

\* C20 witness: the likes strategy raised on a page whose meta tags had
\* given a name and an about text; both are in the result
C20_Witness ==
  /\ StrategyRaised
  /\ bench.env.obs.raises = "likes"
  /\ bench.info["facebook_page_name"] = "Acme Inc"
  /\ bench.info["facebook_about"] = "We care for people"
  /\ bench.info["facebook_likes"] = ""

\* the parts of the base extraction, run in the order of the code on a page
\* that raises nowhere, with the part named skip left out
StageApply(stage, page, info) ==
  CASE stage = "phone" -> ExtractPhone(page, info)
    [] stage = "email" -> ExtractEmail(page, info)
    [] stage = "social" -> ExtractSocial(page, info)
    [] stage = "address" -> ExtractAddressInfo(page, info)
    [] stage = "contact" -> ExtractContactPerson(page, info)
    [] stage = "location" -> ExtractLocationInfo(page, info)
RECURSIVE StagesWithout(_, _, _, _)
StagesWithout(skip, page, info, i) ==
  IF i > Len(BaseStages) THEN info
  ELSE StagesWithout(skip, page,
                     IF BaseStages[i] = skip THEN info ELSE StageApply(BaseStages[i], page, info),
                     i + 1)

\* C21: when one part of the base extraction (phone, email, social links,
\* address, contact person, city/state) raises, the result is what the other
\* parts give: every field collected by the parts before it is kept and the
\* parts after it still contribute their fields.
C21_FailureIsLocal ==
  (bench.op = "base" /\ bench.env.raises # "none") =>
    bench.info = StagesWithout(bench.env.raises, PageOf(bench.arg), EmptyMap, 1)

\* the fields of a record that only the extractions set
ExtractionFields ==
  Fields \ {"company_name", "website", "status", "last_updated", "processing_time"}

\* C22: when the resolution of a company given without website ends with ''
\* (no exception), the record gets website '' and status 'Website not found';
\* from then on the call only records the processing time and returns: it is
\* at no fetch, extraction or social step, no page was fetched, and no
\* extraction field of the record is set.
C22_NotFoundStopsPipeline ==
  \A r \in Runners :
    /\ (pc[r] \in {"finish", "returned"} /\ rec[r]["website"] = "" /\ ~Raised(r))
         => rec[r]["status"] = "Website not found"
    /\ (InCall(r) /\ rec[r]["status"] = "Website not found") => pc[r] = "finish"
    /\ (pc[r] \in {"finish", "returned"} /\ rec[r]["status"] = "Website not found") =>
         /\ rec[r]["website"] = "" /\ website[r] = ""
         /\ \A f \in ExtractionFields : rec[r][f] = ""
         /\ html[r] = ""
         /\ "fetch" \notin Range(steps[r])
    /\ (Returned(r) /\ rec[r]["status"] = "Website not found") =>
         /\ rec[r]["processing_time"] = now[r] - start[r]
         /\ steps[r][Len(steps[r])] = "time"
\* C22 witness: a call for which the search and every guess failed has
\* returned 'Website not found' after time passed in a probe
C22_Witness ==
  \E r \in Runners :
    /\ Returned(r) /\ rec[r]["status"] = "Website not found"
    /\ "search" \in Range(steps[r]) /\ "guess" \in Range(steps[r])
    /\ rec[r]["processing_time"] = 1

\* the search ran with a browser and its page load or wait timed out or failed
SearchFailed ==
  /\ bench.op = "browser"
  /\ bench.env.driver.open \/ bench.env.setup_ok
  /\ bench.env.page.wait \in {"timeout", "error"}
\* the social extraction ran with a browser and the load of the profile failed
SocialLoadFailed ==
  bench.op = "social" /\ bench.arg # "" /\ bench.env.have_driver /\ bench.env.obs.load # "ok"

\* C23: when the browser step of the search or of the social extraction
\* fails or times out, no exception leaves the function, the crawler's driver
\* is None afterwards, and the function gives what its alternative works
\* from: '' for the search (the domain guess follows), the result of the URL
\* fallback for the social extraction.
C23_AutomationFailureDiscardsHandle ==
  /\ SearchFailed =>
       ~bench.out.raised /\ bench.out.url = "" /\ bench.out.driver = NoDriver
  /\ SocialLoadFailed =>
       bench.info = extract_facebook_from_url(bench.arg) /\ bench.out = NoDriver

\* the social extraction loaded a public profile in the browser
PublicLoaded ==
  /\ bench.op = "social" /\ bench.arg # "" /\ bench.env.have_driver
  /\ bench.env.obs.load = "ok" /\ ~BehindWall

\* C24: in one call of extract_facebook_info on a loaded public profile, a
\* field that holds a non-empty value after the meta tags, after the cleaned
\* title, after the heading scan, after the likes scan or after the about
\* regions has that same value in the result.
C24_FirstNonEmptyWins ==
  PublicLoaded =>
    LET obs == bench.env.obs
        s1 == FbMetaTags(obs, FbResultInit)
        ct == CleanTitle(obs.title)
        s2 == FbTitleAndHeading(obs, s1)
        s3 == FbLikes(obs, s2)
        s4 == FbAbout(obs, s3)
    IN /\ \A st \in {s1, s2, s3, s4} : \A k \in FbKeys :
            st[k] # "" => bench.info[k] = st[k]
       /\ (s1["facebook_page_name"] = "" /\ ct # "" /\ ct # "Facebook")
            => bench.info["facebook_page_name"] = ct

\* the anchors of a page that qualify as Facebook link and as LinkedIn link
FacebookLinks(page) ==
  SelectSeq(page.anchors, LAMBDA a : a.facebook /\ ~a.fb_skip /\ a.slashes >= 3)
LinkedinLinks(page) ==
  SelectSeq(page.anchors, LAMBDA a : ~(a.facebook /\ ~a.fb_skip) /\ a.linkedin)
\* the base extraction reached its return statement
BaseReturnedInfo ==
  /\ bench.op = "base" /\ PageOf(bench.arg).raises = "none"
  /\ bench.env.raises \notin {"phone", "email", "social"}

\* C25: facebook_page is the cleaned URL of the first qualifying Facebook
\* anchor of the page in document order and linkedin_page that of the first
\* qualifying LinkedIn anchor, however many qualifying anchors follow.
C25_FirstLinkWins ==
  BaseReturnedInfo =>
    LET page == PageOf(bench.arg) IN
    /\ FacebookLinks(page) # <<>> =>
         Has(bench.info, "facebook_page")
         /\ bench.info["facebook_page"] = FacebookLinks(page)[1].base
    /\ LinkedinLinks(page) # <<>> =>
         Has(bench.info, "linkedin_page")
         /\ bench.info["linkedin_page"] = LinkedinLinks(page)[1].base

\* the positions of the domain guess of a call
GuessPcs == {"fallback", "probe_send", "probe_recv"}

\* one step of a call, seen from the domain guess
C26_Step(r) ==
  LET cands == Candidates(cname[r]) IN
  \* the first probe is https:// with the first candidate
  /\ (pc[r] = "fallback" /\ pc'[r] = "probe_send") => probe'[r] = [c |-> 1, p |-> 1]
  \* a probe requests https://candidate, then http://candidate
  /\ pc[r] = "probe_recv" =>
       /\ probe[r].c \in 1..Len(cands) /\ probe[r].p \in {1, 2}
       /\ probe[r].p = 1 => ProbeUrl(r) = "https://" \o cands[probe[r].c]
       /\ probe[r].p = 2 => ProbeUrl(r) = "http://" \o cands[probe[r].c]
  \* after a response the guess either returns or goes to the next probe in
  \* the order: the other protocol of the candidate, then the next candidate
  /\ (pc[r] = "probe_recv" /\ pc'[r] # "probe_recv") =>
       \/ /\ pc'[r] = "probe_send"
          /\ probe'[r] = IF probe[r].p = 1 THEN [c |-> probe[r].c, p |-> 2]
                         ELSE [c |-> probe[r].c + 1, p |-> 1]
          /\ website'[r] = ""
       \/ /\ pc'[r] = "resolved"
          /\ \/ /\ website'[r] = ProbeUrl(r)
                /\ \E resp \in ProbeResponses(cname[r]) :
                     /\ ~resp.raises /\ resp.status = 200
                     /\ validate_website_relevance(cname[r], resp.content, ProbeUrl(r))
             \/ /\ website'[r] = ""
                /\ probe[r] = [c |-> Len(cands), p |-> 2]
  \* nothing raised: the guess is left only by its return
  /\ pc[r] \in GuessPcs => (pc'[r] \in GuessPcs \cup {"resolved"} /\ exc'[r] = exc[r])
  \* no probe after the return
  /\ pc[r] = "resolved" => pc'[r] \notin GuessPcs

\* C26: the domain guess probes https:// then http:// of each candidate, in
\* the order of the list; it returns the URL it has just probed when that
\* response is a 200 whose page passes validate_website_relevance and probes
\* nothing after that; any other response, an exception of the request
\* included, leads to the next probe; it returns '' only after the last
\* probe, and no exception leaves it.
C26_ProbesInOrder == [][\A r \in Runners : C26_Step(r)]_vars
\* C26 witness: the guess returned the http:// URL of its second candidate,
\* which it reaches after three refused probes
C26_Witness ==
  \E r \in Runners :
    /\ pc[r] = "resolved" /\ Len(Candidates(cname[r])) >= 2
    /\ website[r] = "http://" \o Candidates(cname[r])[2]

\* C27: for a name that contains health, care, medical or hospice and keeps
\* at least one word after normalization, the candidate list holds the first
\* word followed by health.com, care.com and medical.com, the first word
\* alone and followed by inc.com and llc.com, and, when two words are kept,
\* their concatenation and hyphenation.
C27_IndustryVariants ==
  (bench.op = "candidates" /\ HasHealthWord(bench.arg) /\ Len(CleanWords(bench.arg)) >= 1) =>
    LET w == CleanWords(bench.arg)
        list == Range(bench.out)
    IN /\ {w[1] \o "health.com", w[1] \o "care.com", w[1] \o "medical.com"} \subseteq list
       /\ {w[1] \o ".com", w[1] \o "inc.com", w[1] \o "llc.com"} \subseteq list
       /\ Len(w) >= 2 => {w[1] \o w[2] \o ".com", w[1] \o "-" \o w[2] \o ".com"} \subseteq list

\* C28: for a URL without scheme fetch_website_content requests https://url
\* first and http://url second, the second only when the first response was
\* not accepted; for a URL with a scheme it requests that URL once and
\* nothing else.
C28_HttpsThenHttp ==
  bench.op = "fetch" =>
    LET url == bench.arg
        req == bench.out.requested
        r1 == bench.env.resps[1]
    IN IF url \in {"https://acme.com", "http://acme.com"}
         THEN req = <<url>>
         ELSE /\ req[1] = "https://" \o url
              /\ Len(req) \in {1, 2}
              /\ Len(req) = 2 <=> ~(~r1.raises /\ r1.status = 200 /\ r1.long /\ r1.html_tag)
              /\ Len(req) = 2 => req[2] = "http://" \o url
\* C28 witness: the https attempt of a URL without scheme raised and the
\* http attempt gave the content
C28_Witness ==
  /\ bench.op = "fetch" /\ bench.arg = "acme.com"
  /\ bench.env.resps[1].raises
  /\ bench.out.requested = <<"https://acme.com", "http://acme.com">>
  /\ bench.out.content = "page_full"
\* C28 witness of the other case: a URL with scheme, refused, one attempt
C28_WitnessGiven ==
  /\ bench.op = "fetch" /\ bench.arg = "http://acme.com"
  /\ bench.env.resps[1].status = 404
  /\ bench.out = [requested |-> <<"http://acme.com">>, content |-> ""]

\* the search had a browser and loaded the result page
Searched == bench.op = "browser" /\ (bench.env.driver.open \/ bench.env.setup_ok)
\* the hrefs of the model that are absolute http(s) URLs, those of them whose
\* domain is on the blocklist, and those that are pages of the search engine
HttpHrefs ==
  {"https://www.acme.com/", "https://en.wikipedia.org/wiki/Acme",
   "https://www.facebook.com/acme", "https://www.google.com/maps/place/Acme"}
BlocklistedHrefs == {"https://en.wikipedia.org/wiki/Acme", "https://www.facebook.com/acme"}
SearchEngineHrefs == {"https://www.google.com/maps/place/Acme"}

C29_WitnessFound ==
  /\ Searched /\ bench.env.page.wait = "ok"
  /\ bench.out.url = "https://www.acme.com/"

\* C30: a call that is about to run the search with the crawler's open
\* browser finds it with the page-load timeout 5 of the browser setup,
\* whatever was processed on the crawler before.
C30_SearchLoadsUnderShortTimeout ==
  \A r \in Runners :
    (pc[r] = "browser" /\ driver[appOf(r)].open) => driver[appOf(r)].page_load_timeout = 5

\* C31: in a call of process_company the status is assigned at most once,
\* and once it is assigned only the processing time follows: the status is
\* '' until the assignment, the assignment is the last step of the log or
\* the last but one with "time" after it, and a call that returned has
\* exactly one assignment.
C31_StatusAssignedOnce ==
  \A r \in Runners :
    LET q == steps[r]
        at == {i \in 1..Len(q) : q[i] = "status"}
    IN /\ Cardinality(at) <= 1
       /\ \A i \in at : (i = Len(q)) \/ (i = Len(q) - 1 /\ q[Len(q)] = "time")
       /\ (InCall(r) /\ at = {}) => rec[r]["status"] = ""
       /\ at # {} => (rec[r]["status"] \in Statuses /\ pc[r] \notin CallPcs \ {"finish"})
       /\ Returned(r) => (Cardinality(at) = 1 /\ q[Len(q)] = "time")
\* C31 witness: a call that fetched, extracted, ran the social extraction and
\* merged, then assigned 'Success' and returned
C31_Witness ==
  \E r \in Runners :
    /\ Returned(r) /\ rec[r]["status"] = "Success"
    /\ "social" \in Range(steps[r])
    /\ steps[r][Len(steps[r]) - 1] = "status"

\* C32: the last_updated of a returned record is the time at which the
\* processing of the company completed.
C32_StampedAtCompletion ==
  \A r \in Runners : Returned(r) => rec[r]["last_updated"] = Stamp(now[r])

\* the first entry of a sequence that satisfies a test, as a set
FirstOf(q, Test(_)) ==
  {q[i] : i \in {j \in 1..Len(q) : Test(q[j]) /\ \A k \in 1..(j - 1) : ~Test(q[k])}}
\* the value of a key in a result, {} when the key is absent
ValueOf(m, k) == IF Has(m, k) THEN {m[k]} ELSE {}

\* C33: in a base extraction that returns, a structured address match gives
\* street, city, state and zip together, from the first match of the first
\* pattern that matches, and nothing else contributes to these fields;
\* without one, zip, state and street are each the value of the first block
\* that has one, the city is that of the first "City, ST" match, and the
\* state of that match is used only when no block gave a state.
C33_AddressSetOnce ==
  (BaseReturnedInfo /\ bench.env.raises = "none") =>
    LET page == PageOf(bench.arg)
        structured == FirstOf(page.address_matches, LAMBDA ms : ms # <<>>)
        cs == FirstOf(page.city_state_matches, LAMBDA ms : ms # <<>>)
        secs == page.address_sections
        val(k) == ValueOf(bench.info, k)
    IN IF structured # {}
         THEN \A ms \in structured :
                /\ val("street_address") = {Strip(ms[1][1])}
                /\ val("city") = {Strip(ms[1][2])}
                /\ val("state") = {Strip(ms[1][3])}
                /\ val("zip_code") = {Strip(ms[1][4])}
         ELSE /\ val("zip_code") = {e.zip : e \in FirstOf(secs, LAMBDA e : e.zip # "")}
              /\ val("street_address") =
                   {Strip(e.street) : e \in FirstOf(secs, LAMBDA e : e.street # "")}
              /\ val("city") = {Strip(ms[1][1]) : ms \in {x \in cs : Len(x[1][1]) > 2}}
              /\ val("state") =
                   IF \E i \in 1..Len(secs) : secs[i].state # ""
                     THEN {e.state : e \in FirstOf(secs, LAMBDA e : e.state # "")}
                     ELSE {Strip(ms[1][2]) : ms \in cs}
\* C33 witness: two blocks and a city/state match that disagree; the first
\* block's zip and state stay, the street comes from the second block, the
\* city from the match
C33_Witness ==
  /\ bench.op = "base" /\ bench.arg = "page_address_mixed" /\ bench.env.raises = "none"
  /\ bench.info = [zip_code |-> "62701", state |-> "IL", street_address |-> "5 Elm St",
                   city |-> "Albany"]
\* C33 witness: a structured match, with blocks and a city/state match that
\* are not used
C33_WitnessStructured ==
  /\ bench.op = "base" /\ bench.arg = "page_address_both" /\ bench.env.raises = "none"
  /\ bench.info = [street_address |-> "12 Oak St", city |-> "Springfield", state |-> "IL",
                   zip_code |-> "62701"]

\* the positions of the website resolver in a call
ResolverPcs == {"browser", "fallback", "probe_send", "probe_recv"}

\* a call that holds a website keeps it and is at no position of the resolver
C34_KeptAndReturned ==
  \A r \in Runners :
    /\ (InCall(r) /\ website[r] # "") => pc[r] \notin ResolverPcs
    /\ ((InCall(r) \/ Returned(r)) /\ website[r] # "" /\ pc[r] # "resolved")
         => rec[r]["website"] = website[r]
\* a call started with a website goes to the fetch, and no step of a call
\* changes a website the call holds or enters the resolver with it
C34_Step(r) ==
  /\ (pc[r] = "call" /\ website[r] # "") =>
       (pc'[r] = "fetch" /\ rec'[r]["website"] = website[r] /\ steps'[r] = <<>>)
  /\ ((pc[r] = "call" \/ InCall(r)) /\ website[r] # "") =>
       (website'[r] = website[r] /\ pc'[r] \notin ResolverPcs)
  /\ pc'[r] \in ResolverPcs /\ pc[r] \notin ResolverPcs => (pc[r] = "call" /\ website[r] = "")

\* C34: a call of process_company with a non-empty website never runs the
\* search or the domain guess, and on every path the record it returns has
\* the website that was passed in.
C34_GivenWebsiteKept == [](C34_KeptAndReturned) /\ [][\A r \in Runners : C34_Step(r)]_vars
\* C34 witness: a call given a website without scheme returned without
\* content; the resolver did not run and the record has the website
C34_Witness ==
  \E r \in Runners :
    /\ Returned(r) /\ steps[r] = <<"fetch", "status", "time">>
    /\ rec[r]["website"] = "acme.com"
    /\ rec[r]["status"] = "Could not fetch website content"
\* C34 witness of the other outcome: success with the website as given
C34_WitnessSuccess ==
  \E r \in Runners :
    /\ Returned(r) /\ steps[r][1] = "fetch" /\ rec[r]["status"] = "Success"
    /\ rec[r]["website"] = "https://www.acme.com/"

\* C35: the candidate list of a name has at most 8 entries, each of at least
\* 7 characters, and holds every domain the patterns generate for the name:
\* the length filter and the cut to 8 remove nothing.
C35_NothingRemoved ==
  bench.op = "candidates" =>
    /\ Len(bench.out) <= 8
    /\ \A i \in 1..Len(bench.out) : Len(bench.out[i]) >= 7
    /\ Range(PotentialDomains(bench.arg)) = Range(bench.out)
    /\ \A i, j \in 1..Len(bench.out) : i # j => bench.out[i] # bench.out[j]
\* C35 witness: a name for which every pattern gives a domain of its own: the
\* list has 8 entries, the shortest of 7 characters
C35_Witness ==
  /\ bench.op = "candidates" /\ Len(bench.out) = 8
  /\ \E i \in 1..8 : Len(bench.out[i]) = 7

\* C36: with two tasks on one crawler, a task that passed the test of
\* self.driver in find_website_browser or extract_facebook_info and is about
\* to use the driver finds the browser open, and no other task runs before
\* it has used it.
C36_NoUseAfterClose ==
  \A r \in Runners :
    pc[r] \in {"b_use", "f_use"} =>
      /\ driver[appOf(r)].open
      /\ running[appOf(r)] = r
      /\ \A o \in Runners \ {r} : pc[o] \notin {"b_use", "f_use"}
\* C36 witness: a task is about to use, in the social extraction, a browser
\* that the other task's search closed and this task set up again while the
\* other task is suspended in its own call
C36_Witness ==
  \E r \in Runners, o \in Runners :
    /\ r # o /\ pc[r] = "f_use" /\ driver[appOf(r)] = [open |-> TRUE, page_load_timeout |-> 5]
    /\ idx[r] = 2 /\ pc[o] = "await_fetch"

\* the numbers of a web job that another task can read
WebJobs == {r \in Runners : kind[r] = "web" /\ job[r].status # "none"}
Counted(r) ==
  /\ job[r].processed_companies = job[r].success_count + job[r].failure_count
  /\ job[r].processed_companies = Len(results[r])
  /\ job[r].processed_companies <= job[r].total_companies
  /\ job[r].success_count = Cardinality({i \in DOMAIN results[r] : results[r][i]["status"] = "Success"})
NotDecreased(r) ==
  /\ job[r].processed_companies' >= job[r].processed_companies
  /\ job[r].success_count' >= job[r].success_count
  /\ job[r].failure_count' >= job[r].failure_count
  /\ Len(results[r]') >= Len(results[r])
\* C37: in every state of a web job processed_companies = success_count +
\* failure_count = the number of results, processed_companies is at most
\* total_companies, and no step decreases a counter or the results.
C37_CountersConsistent ==
  /\ [](\A r \in WebJobs : Counted(r))
  /\ [][\A r \in WebJobs : NotDecreased(r)]_vars
\* C37 witness: a job that is being broadcast with one success and one
\* failure recorded
C37_Witness ==
  \E r \in WebJobs :
    /\ pc[r] = "bcast_send" /\ job[r].status = "processing"
    /\ job[r].success_count = 1 /\ job[r].failure_count = 1 /\ Len(results[r]) = 2

\* C38: a web job whose status is "completed" has processed_companies equal
\* to total_companies (a reported progress of 100 percent).
C38_CompletedIsEverything ==
  \A r \in WebJobs :
    job[r].status = "completed" => job[r].processed_companies = job[r].total_companies

\* C39: after its creation a web job changes status only from "processing"
\* to "completed" or to "failed", a job that is "completed" or "failed"
\* changes neither its status nor its counters nor its results any more, and
\* end_time is set exactly in the terminal statuses.
TerminalStatuses == {"completed", "failed"}
C39_Step(r) ==
  /\ job[r].status' # job[r].status =>
       \/ job[r].status = "none" /\ job[r].status' = "processing"
       \/ job[r].status = "processing" /\ job[r].status' \in TerminalStatuses
  /\ job[r].status \in TerminalStatuses =>
       /\ job[r].processed_companies' = job[r].processed_companies
       /\ job[r].success_count' = job[r].success_count
       /\ job[r].failure_count' = job[r].failure_count
       /\ results[r]' = results[r]
C39_TerminalStatus ==
  /\ [](\A r \in WebJobs : job[r].end_time_set <=> job[r].status \in TerminalStatuses)
  /\ [][\A r \in Runners : kind[r] = "web" => C39_Step(r)]_vars

====
